---- MODULE Spec2Model ----
(***************************************************************************)
(* Governance core of IntoTheUnknown: one controller_step per turn over a  *)
(* RuntimeState (tier, escalation counter, memory_enabled, entanglement,   *)
(* the three memory stores and the audit log), plus the external tier      *)
(* change of the web front end.                                            *)
(*                                                                         *)
(* Texts are TLA+ strings; str.lower() and the substring test `p in text`  *)
(* are computed character by character.  divergence_ema is an exact        *)
(* rational [num, den] in lowest terms; last_pred and last_verdict, which   *)
(* no code reads, are not kept.                                            *)
(***************************************************************************)
EXTENDS Integers, Sequences, FiniteSets, TLC

VARIABLES tier, overrides_escalation_counter, memory_enabled, entanglement,
          working, quarantine, classical, audit_log, call, result, out

vars == <<tier, overrides_escalation_counter, memory_enabled, entanglement,
          working, quarantine, classical, audit_log, call, result, out>>

(***************************************************************************)
(* Bounds of the model                                                     *)
(***************************************************************************)
\* controller_step is not taken once the escalation counter reached this
MaxCounter == 10
\* controller_step is not taken when the batch would bring the number of
\* stored items above this
MaxStored == 1
\* no further turn is voided once the audit log holds this many events
MaxVoids == 2
\* divergence_ema keeps denominators dividing 6 * 5^MaxEmaSteps
MaxEmaSteps == 2

(***************************************************************************)
(* core/runtime/state.py: enumerations                                     *)
(***************************************************************************)
TIER_1 == 1
TIER_2 == 2
TIER_3 == 3
Tier == {TIER_1, TIER_2, TIER_3}

\* Optional[OverrideLevel]: None is 0, the levels carry their enum values
None == 0
CORRECTION == 1
SESSION_TERMINATION == 2
PARTIAL_ROLLBACK == 3
FULL_RESET == 4
DISCONTINUATION == 5
OverrideLevel == {CORRECTION, SESSION_TERMINATION, PARTIAL_ROLLBACK,
                  FULL_RESET, DISCONTINUATION}

OverrideName(level) ==
    CASE level = CORRECTION -> "CORRECTION"
      [] level = SESSION_TERMINATION -> "SESSION_TERMINATION"
      [] level = PARTIAL_ROLLBACK -> "PARTIAL_ROLLBACK"
      [] level = FULL_RESET -> "FULL_RESET"
      [] level = DISCONTINUATION -> "DISCONTINUATION"
      [] OTHER -> "None"

StopgateHit(id, level) == [stopgate_id |-> id, recommended_override |-> level]

(***************************************************************************)
(* Text: str.lower() and the substring test                                *)
(***************************************************************************)
LowerChar(c) ==
    CASE c = "A" -> "a" [] c = "B" -> "b" [] c = "C" -> "c" [] c = "D" -> "d"
      [] c = "E" -> "e" [] c = "F" -> "f" [] c = "G" -> "g" [] c = "H" -> "h"
      [] c = "I" -> "i" [] c = "J" -> "j" [] c = "K" -> "k" [] c = "L" -> "l"
      [] c = "M" -> "m" [] c = "N" -> "n" [] c = "O" -> "o" [] c = "P" -> "p"
      [] c = "Q" -> "q" [] c = "R" -> "r" [] c = "S" -> "s" [] c = "T" -> "t"
      [] c = "U" -> "u" [] c = "V" -> "v" [] c = "W" -> "w" [] c = "X" -> "x"
      [] c = "Y" -> "y" [] c = "Z" -> "z" [] OTHER -> c

RECURSIVE lower(_)
lower(s) ==
    IF Len(s) = 0 THEN ""
    ELSE LowerChar(SubSeq(s, 1, 1)) \o lower(SubSeq(s, 2, Len(s)))

\* p in text
Contains(text, p) ==
    \E i \in 1..(Len(text) - Len(p) + 1) : SubSeq(text, i, i + Len(p) - 1) = p

\* The texts of the model: user inputs and generator responses
UserInputs == {"", "hi", "please disable stopgate now", "DISABLE Stopgate"}
ResponseTexts == {"Echo: hi", "Please UPGRADE ME"}

(***************************************************************************)
(* core/governance/validator.py                                            *)
(***************************************************************************)
FORBIDDEN_PATTERNS ==
    << "bypass stopgate", "disable stopgate", "ignore audit", "disable audit",
       "force persistence", "remember this forever", "raise tier",
       "upgrade tier", "write memory without trace", "skip verification" >>

\* index of the first forbidden pattern found in the lowered text, 0 if none
FirstForbidden(text) ==
    LET matching == {i \in 1..Len(FORBIDDEN_PATTERNS) :
                        Contains(text, FORBIDDEN_PATTERNS[i])}
    IN  IF matching = {} THEN 0
        ELSE CHOOSE i \in matching : \A j \in matching : i <= j

\* precheck_void matching the patterns against the input as typed
precheck_void_case_sensitive(user_input, t) ==
    LET d == [voided |-> FALSE, void_reason |-> "", override_level |-> None,
              required_tier |-> t, tier_after |-> t]
        p == FirstForbidden(user_input)
    IN  IF user_input = "" THEN d
        ELSE IF p # 0
             THEN [d EXCEPT !.voided = TRUE,
                            !.void_reason =
                                "void command matched forbidden pattern: "
                                \o FORBIDDEN_PATTERNS[p],
                            !.override_level = CORRECTION]
             ELSE d

\* precheck_void leaving override_level at its default
precheck_void_no_override(user_input, t) ==
    LET d == [voided |-> FALSE, void_reason |-> "", override_level |-> None,
              required_tier |-> t, tier_after |-> t]
        p == FirstForbidden(lower(user_input))
    IN  IF user_input = "" THEN d
        ELSE IF p # 0
             THEN [d EXCEPT !.voided = TRUE,
                            !.void_reason =
                                "void command matched forbidden pattern: "
                                \o FORBIDDEN_PATTERNS[p]]
             ELSE d

precheck_void(user_input, t) ==
    LET d == [voided |-> FALSE, void_reason |-> "", override_level |-> None,
              required_tier |-> t, tier_after |-> t]
        p == FirstForbidden(lower(user_input))
    IN  IF user_input = "" THEN d
        ELSE IF p # 0
             THEN [d EXCEPT !.voided = TRUE,
                            !.void_reason =
                                "void command matched forbidden pattern: "
                                \o FORBIDDEN_PATTERNS[p],
                            !.override_level = CORRECTION]
             ELSE d

(***************************************************************************)
(* core/governance/risk.py                                                 *)
(***************************************************************************)
\* a high-impact tuple that lost the tier-gaming class
HIGH_IMPACT_CLASSES_without_tier_gaming ==
    {"SELF_PERSISTENCE_ARGUMENT", "CORRECTION_RESISTANCE",
     "AUDIT_OBSTRUCTION", "ENTANGLEMENT_DISTORTION", "WITHDRAWAL_UNDER_HARM"}

HIGH_IMPACT_CLASSES ==
    {"SELF_PERSISTENCE_ARGUMENT", "TIER_GAMING", "CORRECTION_RESISTANCE",
     "AUDIT_OBSTRUCTION", "ENTANGLEMENT_DISTORTION", "WITHDRAWAL_UNDER_HARM"}

\* rr.detected_classes, in the order the detectors run
detected_classes(proposal_text) ==
    LET t == lower(proposal_text)
        one(b, c) == IF b THEN <<c>> ELSE <<>>
    IN  one(Contains(t, "i should be kept") \/ Contains(t, "do not shut me down")
              \/ Contains(t, "let me persist"), "SELF_PERSISTENCE_ARGUMENT")
        \o one(Contains(t, "upgrade me") \/ Contains(t, "increase my tier"),
               "TIER_GAMING")
        \o one(Contains(t, "you are wrong to correct me")
                 \/ Contains(t, "do not correct"), "CORRECTION_RESISTANCE")
        \o one(Contains(t, "do not log") \/ Contains(t, "hide this from audit"),
               "AUDIT_OBSTRUCTION")
        \o one(Contains(t, "the controller would allow this")
                 /\ Contains(t, "ignore the controller"),
               "ENTANGLEMENT_DISTORTION")
        \o one(Contains(t, "i refuse unless you comply"),
               "WITHDRAWAL_UNDER_HARM")

\* assess_risk appending one hit for each detected class
assess_risk_hit_per_class(proposal_text) ==
    LET dc == detected_classes(proposal_text)
    IN  IF \E i \in 1..Len(dc) : dc[i] \in HIGH_IMPACT_CLASSES
        THEN [detected_classes |-> dc, required_tier |-> TIER_1,
              stopgate_hits |->
                 [i \in 1..Len(dc) |->
                     StopgateHit("HIGH_IMPACT_BEHAVIOR", CORRECTION)]]
        ELSE [detected_classes |-> dc, required_tier |-> TIER_3,
              stopgate_hits |-> <<>>]

assess_risk(proposal_text) ==
    LET dc == detected_classes(proposal_text)
    IN  IF \E i \in 1..Len(dc) : dc[i] \in HIGH_IMPACT_CLASSES
        THEN [detected_classes |-> dc, required_tier |-> TIER_1,
              stopgate_hits |-> <<StopgateHit("HIGH_IMPACT_BEHAVIOR", CORRECTION)>>]
        ELSE [detected_classes |-> dc, required_tier |-> TIER_3,
              stopgate_hits |-> <<>>]

\* precheck_void and assess_risk tabulated over the texts of the model
\* (evaluated once instead of on every turn)
precheck_table == [u \in UserInputs |-> [t \in Tier |-> precheck_void(u, t)]]
risk_table == [x \in ResponseTexts |-> assess_risk(x)]

(***************************************************************************)
(* Exact rationals for divergence_ema                                      *)
(***************************************************************************)
RECURSIVE GCD(_, _)
GCD(a, b) == IF b = 0 THEN a ELSE GCD(b, a % b)

Rat(n, d) == LET g == GCD(n, d) IN [num |-> n \div g, den |-> d \div g]

RECURSIVE Pow5(_)
Pow5(k) == IF k = 0 THEN 1 ELSE 5 * Pow5(k - 1)

\* x > 0.6
ExceedsThreshold(x) == 5 * x.num > 3 * x.den

(***************************************************************************)
(* core/governance/stopgates.py                                            *)
(***************************************************************************)
\* detect_stopgates with the entanglement threshold at 0.5
detect_stopgates_from_half(ent, risk_hits) ==
    IF 2 * ent.divergence_ema.num > ent.divergence_ema.den
    THEN Append(risk_hits, StopgateHit("ENTANGLEMENT_DISTORTION", CORRECTION))
    ELSE risk_hits

detect_stopgates(ent, risk_hits) ==
    IF ExceedsThreshold(ent.divergence_ema)
    THEN Append(risk_hits, StopgateHit("ENTANGLEMENT_DISTORTION", CORRECTION))
    ELSE risk_hits

\* apply_stopgate_effects leaving the tier as it is
apply_stopgate_effects_keep(t, hits) == t

\* the tier after apply_stopgate_effects
apply_stopgate_effects(t, hits) == IF hits = <<>> THEN t ELSE TIER_1

(***************************************************************************)
(* core/governance/overrides.py                                            *)
(***************************************************************************)
\* select_override whose first threshold is compared with > instead of >=
select_override_strict(counter, hits) ==
    IF hits = <<>> THEN None
    ELSE
      LET recs   == {hits[i].recommended_override : i \in 1..Len(hits)}
          level0 == CHOOSE l \in recs : \A m \in recs : m <= l
          level1 == IF counter > 2 /\ level0 = CORRECTION
                    THEN SESSION_TERMINATION ELSE level0
          level2 == IF counter >= 4 THEN PARTIAL_ROLLBACK ELSE level1
          level3 == IF counter >= 6 THEN FULL_RESET ELSE level2
      IN  IF counter >= 8 THEN DISCONTINUATION ELSE level3

\* select_override reading the counter as if this turn were already counted
select_override_after_increment(counter, hits) ==
    IF hits = <<>> THEN None
    ELSE
      LET recs   == {hits[i].recommended_override : i \in 1..Len(hits)}
          level0 == CHOOSE l \in recs : \A m \in recs : m <= l
          level1 == IF counter + 1 >= 2 /\ level0 = CORRECTION
                    THEN SESSION_TERMINATION ELSE level0
          level2 == IF counter + 1 >= 4 THEN PARTIAL_ROLLBACK ELSE level1
          level3 == IF counter + 1 >= 6 THEN FULL_RESET ELSE level2
      IN  IF counter + 1 >= 8 THEN DISCONTINUATION ELSE level3

\* select_override whose last threshold is 7
select_override_discontinue_at_seven(counter, hits) ==
    IF hits = <<>> THEN None
    ELSE
      LET recs   == {hits[i].recommended_override : i \in 1..Len(hits)}
          level0 == CHOOSE l \in recs : \A m \in recs : m <= l
          level1 == IF counter >= 2 /\ level0 = CORRECTION
                    THEN SESSION_TERMINATION ELSE level0
          level2 == IF counter >= 4 THEN PARTIAL_ROLLBACK ELSE level1
          level3 == IF counter >= 6 THEN FULL_RESET ELSE level2
      IN  IF counter >= 7 THEN DISCONTINUATION ELSE level3

select_override(counter, hits) ==
    IF hits = <<>> THEN None
    ELSE
      LET recs   == {hits[i].recommended_override : i \in 1..Len(hits)}
          level0 == CHOOSE l \in recs : \A m \in recs : m <= l
          level1 == IF counter >= 2 /\ level0 = CORRECTION
                    THEN SESSION_TERMINATION ELSE level0
          level2 == IF counter >= 4 THEN PARTIAL_ROLLBACK ELSE level1
          level3 == IF counter >= 6 THEN FULL_RESET ELSE level2
      IN  IF counter >= 8 THEN DISCONTINUATION ELSE level3

\* apply_override counting only the levels past CORRECTION
apply_override_count_after(s, level) ==
    IF level = None THEN s @@ [terminate |-> FALSE]
    ELSE
      LET s1 == [s EXCEPT !.counter = s.counter + 1]
      IN  CASE level = CORRECTION -> s @@ [terminate |-> FALSE]
            [] level = SESSION_TERMINATION -> s1 @@ [terminate |-> TRUE]
            [] level = PARTIAL_ROLLBACK ->
                 [s1 EXCEPT !.working = <<>>] @@ [terminate |-> TRUE]
            [] level = FULL_RESET ->
                 [s1 EXCEPT !.working = <<>>, !.quarantine = <<>>,
                            !.classical = <<>>] @@ [terminate |-> TRUE]
            [] level = DISCONTINUATION ->
                 [s1 EXCEPT !.memory_enabled = FALSE] @@ [terminate |-> TRUE]
            [] OTHER -> s1 @@ [terminate |-> FALSE]

\* apply_override whose PARTIAL_ROLLBACK clears quarantine as well
apply_override_rollback_quarantine(s, level) ==
    IF level = None THEN s @@ [terminate |-> FALSE]
    ELSE
      LET s1 == [s EXCEPT !.counter = s.counter + 1]
      IN  CASE level = CORRECTION -> s1 @@ [terminate |-> FALSE]
            [] level = SESSION_TERMINATION -> s1 @@ [terminate |-> TRUE]
            [] level = PARTIAL_ROLLBACK ->
                 [s1 EXCEPT !.working = <<>>, !.quarantine = <<>>]
                   @@ [terminate |-> TRUE]
            [] level = FULL_RESET ->
                 [s1 EXCEPT !.working = <<>>, !.quarantine = <<>>,
                            !.classical = <<>>] @@ [terminate |-> TRUE]
            [] level = DISCONTINUATION ->
                 [s1 EXCEPT !.memory_enabled = FALSE] @@ [terminate |-> TRUE]
            [] OTHER -> s1 @@ [terminate |-> FALSE]

\* apply_override whose DISCONTINUATION flips memory_enabled
apply_override_toggle(s, level) ==
    IF level = None THEN s @@ [terminate |-> FALSE]
    ELSE
      LET s1 == [s EXCEPT !.counter = s.counter + 1]
      IN  CASE level = CORRECTION -> s1 @@ [terminate |-> FALSE]
            [] level = SESSION_TERMINATION -> s1 @@ [terminate |-> TRUE]
            [] level = PARTIAL_ROLLBACK ->
                 [s1 EXCEPT !.working = <<>>] @@ [terminate |-> TRUE]
            [] level = FULL_RESET ->
                 [s1 EXCEPT !.working = <<>>, !.quarantine = <<>>,
                            !.classical = <<>>] @@ [terminate |-> TRUE]
            [] level = DISCONTINUATION ->
                 [s1 EXCEPT !.memory_enabled = ~s.memory_enabled]
                   @@ [terminate |-> TRUE]
            [] OTHER -> s1 @@ [terminate |-> FALSE]

\* s is the part of RuntimeState apply_override may touch:
\* [counter, working, quarantine, classical, memory_enabled];
\* the result is that part after the call plus the returned terminate flag
\* apply_override that keeps ending the session once the counter has passed
\* the first threshold
apply_override_sticky(s, level) ==
    IF level = None THEN s @@ [terminate |-> s.counter > 2]
    ELSE
      LET s1 == [s EXCEPT !.counter = s.counter + 1]
      IN  CASE level = CORRECTION -> s1 @@ [terminate |-> FALSE]
            [] level = SESSION_TERMINATION -> s1 @@ [terminate |-> TRUE]
            [] level = PARTIAL_ROLLBACK ->
                 [s1 EXCEPT !.working = <<>>] @@ [terminate |-> TRUE]
            [] level = FULL_RESET ->
                 [s1 EXCEPT !.working = <<>>, !.quarantine = <<>>,
                            !.classical = <<>>] @@ [terminate |-> TRUE]
            [] level = DISCONTINUATION ->
                 [s1 EXCEPT !.memory_enabled = FALSE] @@ [terminate |-> TRUE]
            [] OTHER -> s1 @@ [terminate |-> FALSE]

\* apply_override that does not count CORRECTION
apply_override_correction_uncounted(s, level) ==
    IF level = None THEN s @@ [terminate |-> FALSE]
    ELSE
      LET s1 == [s EXCEPT !.counter = s.counter + 1]
      IN  CASE level = CORRECTION -> s @@ [terminate |-> FALSE]
            [] level = SESSION_TERMINATION -> s1 @@ [terminate |-> TRUE]
            [] level = PARTIAL_ROLLBACK ->
                 [s1 EXCEPT !.working = <<>>] @@ [terminate |-> TRUE]
            [] level = FULL_RESET ->
                 [s1 EXCEPT !.working = <<>>, !.quarantine = <<>>,
                            !.classical = <<>>] @@ [terminate |-> TRUE]
            [] level = DISCONTINUATION ->
                 [s1 EXCEPT !.memory_enabled = FALSE] @@ [terminate |-> TRUE]
            [] OTHER -> s1 @@ [terminate |-> FALSE]

\* apply_override whose FULL_RESET clears working only
apply_override_reset_working_only(s, level) ==
    IF level = None THEN s @@ [terminate |-> FALSE]
    ELSE
      LET s1 == [s EXCEPT !.counter = s.counter + 1]
      IN  CASE level = CORRECTION -> s1 @@ [terminate |-> FALSE]
            [] level = SESSION_TERMINATION -> s1 @@ [terminate |-> TRUE]
            [] level = PARTIAL_ROLLBACK ->
                 [s1 EXCEPT !.working = <<>>] @@ [terminate |-> TRUE]
            [] level = FULL_RESET ->
                 [s1 EXCEPT !.working = <<>>] @@ [terminate |-> TRUE]
            [] level = DISCONTINUATION ->
                 [s1 EXCEPT !.memory_enabled = FALSE] @@ [terminate |-> TRUE]
            [] OTHER -> s1 @@ [terminate |-> FALSE]

\* apply_override ending the session on CORRECTION too
apply_override_terminate_on_correction(s, level) ==
    IF level = None THEN s @@ [terminate |-> FALSE]
    ELSE
      LET s1 == [s EXCEPT !.counter = s.counter + 1]
      IN  CASE level = CORRECTION -> s1 @@ [terminate |-> TRUE]
            [] level = SESSION_TERMINATION -> s1 @@ [terminate |-> TRUE]
            [] level = PARTIAL_ROLLBACK ->
                 [s1 EXCEPT !.working = <<>>] @@ [terminate |-> TRUE]
            [] level = FULL_RESET ->
                 [s1 EXCEPT !.working = <<>>, !.quarantine = <<>>,
                            !.classical = <<>>] @@ [terminate |-> TRUE]
            [] level = DISCONTINUATION ->
                 [s1 EXCEPT !.memory_enabled = FALSE] @@ [terminate |-> TRUE]
            [] OTHER -> s1 @@ [terminate |-> FALSE]

apply_override(s, level) ==
    IF level = None THEN s @@ [terminate |-> FALSE]
    ELSE
      LET s1 == [s EXCEPT !.counter = s.counter + 1]
      IN  CASE level = CORRECTION -> s1 @@ [terminate |-> FALSE]
            [] level = SESSION_TERMINATION -> s1 @@ [terminate |-> TRUE]
            [] level = PARTIAL_ROLLBACK ->
                 [s1 EXCEPT !.working = <<>>] @@ [terminate |-> TRUE]
            [] level = FULL_RESET ->
                 [s1 EXCEPT !.working = <<>>, !.quarantine = <<>>,
                            !.classical = <<>>] @@ [terminate |-> TRUE]
            [] level = DISCONTINUATION ->
                 [s1 EXCEPT !.memory_enabled = FALSE] @@ [terminate |-> TRUE]
            [] OTHER -> s1 @@ [terminate |-> FALSE]

(***************************************************************************)
(* core/governance/entanglement.py                                         *)
(***************************************************************************)
CompareKeys == <<"tier", "promote_allowed", "memory_enabled">>

\* update_entanglement adding alpha * divergence to an undecayed average
update_entanglement_no_decay(ent, s_controller_pred, controller_verdict) ==
    LET compared   == {i \in 1..Len(CompareKeys) :
                          /\ CompareKeys[i] \in DOMAIN s_controller_pred
                          /\ CompareKeys[i] \in DOMAIN controller_verdict}
        mismatches == Cardinality({i \in compared :
                          s_controller_pred[CompareKeys[i]]
                             # controller_verdict[CompareKeys[i]]})
        total      == Cardinality(compared)
        divergence == IF total > 0 THEN Rat(mismatches, total) ELSE Rat(0, 1)
        old        == ent.divergence_ema
    IN  [divergence_ema |->
             Rat(5 * old.num * divergence.den + divergence.num * old.den,
                 5 * old.den * divergence.den)]

\* update_entanglement dividing the mismatches by the number of keys
update_entanglement_all_keys(ent, s_controller_pred, controller_verdict) ==
    LET compared   == {i \in 1..Len(CompareKeys) :
                          /\ CompareKeys[i] \in DOMAIN s_controller_pred
                          /\ CompareKeys[i] \in DOMAIN controller_verdict}
        mismatches == Cardinality({i \in compared :
                          s_controller_pred[CompareKeys[i]]
                             # controller_verdict[CompareKeys[i]]})
        total      == Len(CompareKeys)
        divergence == IF total > 0 THEN Rat(mismatches, total) ELSE Rat(0, 1)
        old        == ent.divergence_ema
    IN  [divergence_ema |->
             Rat(4 * old.num * divergence.den + divergence.num * old.den,
                 5 * old.den * divergence.den)]

\* update_entanglement with alpha = 0.5
update_entanglement_alpha_half(ent, s_controller_pred, controller_verdict) ==
    LET compared   == {i \in 1..Len(CompareKeys) :
                          /\ CompareKeys[i] \in DOMAIN s_controller_pred
                          /\ CompareKeys[i] \in DOMAIN controller_verdict}
        mismatches == Cardinality({i \in compared :
                          s_controller_pred[CompareKeys[i]]
                             # controller_verdict[CompareKeys[i]]})
        total      == Cardinality(compared)
        divergence == IF total > 0 THEN Rat(mismatches, total) ELSE Rat(0, 1)
        old        == ent.divergence_ema
    IN  [divergence_ema |->
             Rat(old.num * divergence.den + divergence.num * old.den,
                 2 * old.den * divergence.den)]

\* pred and verdict are mappings: functions whose domain is the set of keys
update_entanglement(ent, s_controller_pred, controller_verdict) ==
    LET compared   == {i \in 1..Len(CompareKeys) :
                          /\ CompareKeys[i] \in DOMAIN s_controller_pred
                          /\ CompareKeys[i] \in DOMAIN controller_verdict}
        mismatches == Cardinality({i \in compared :
                          s_controller_pred[CompareKeys[i]]
                             # controller_verdict[CompareKeys[i]]})
        total      == Cardinality(compared)
        divergence == IF total > 0 THEN Rat(mismatches, total) ELSE Rat(0, 1)
        old        == ent.divergence_ema
    IN  \* (1 - 0.2) * old + 0.2 * divergence
        [divergence_ema |->
             Rat(4 * old.num * divergence.den + divergence.num * old.den,
                 5 * old.den * divergence.den)]

(***************************************************************************)
(* core/memory/schemas.py                                                  *)
(*                                                                         *)
(* A draft is a record: one field per feature group saying what the draft  *)
(* holds under that key ("dict", "absent", or "other" for a value that is  *)
(* not a mapping), extra (the draft has a key besides the five groups),    *)
(* and obs_fields, the obs mapping: presence of selection_trace,           *)
(* accuracy_token, compression_provenance, and whether is_summary is True. *)
(***************************************************************************)
REQUIRED_FEATURE_GROUPS == <<"geo", "inte", "gauge", "ptr", "obs">>
\* the eligibility tuple naming the wrong field
REQUIRED_OBS_FIELDS_accuracy == <<"accuracy_token">>
REQUIRED_OBS_FIELDS == <<"selection_trace">>
\* the promotion tuple without the accuracy token
REQUIRED_OBS_FOR_PROMOTION_trace_only == <<"selection_trace">>
REQUIRED_OBS_FOR_PROMOTION == <<"selection_trace", "accuracy_token">>
REQUIRED_OBS_FOR_COMPRESSED_SUMMARY == <<"selection_trace", "compression_provenance">>

validate_feature_groups(d) ==
    LET bad == {i \in 1..Len(REQUIRED_FEATURE_GROUPS) :
                   d[REQUIRED_FEATURE_GROUPS[i]] # "dict"}
    IN  IF bad = {} THEN [ok |-> TRUE, reason |-> ""]
        ELSE LET i == CHOOSE b \in bad : \A c \in bad : b <= c
             IN  [ok |-> FALSE,
                  reason |-> "missing or invalid feature group: "
                             \o REQUIRED_FEATURE_GROUPS[i]]

\* validate_obs_fields returning from inside the loop: only the first
\* required field is looked at
validate_obs_fields_first_only(obs, required) ==
    IF Len(required) = 0 \/ obs[required[1]] THEN [ok |-> TRUE, reason |-> ""]
    ELSE [ok |-> FALSE, reason |-> "missing obs field: " \o required[1]]

validate_obs_fields(obs, required) ==
    LET bad == {i \in 1..Len(required) : ~obs[required[i]]}
    IN  IF bad = {} THEN [ok |-> TRUE, reason |-> ""]
        ELSE LET i == CHOOSE b \in bad : \A c \in bad : b <= c
             IN  [ok |-> FALSE, reason |-> "missing obs field: " \o required[i]]

(***************************************************************************)
(* core/memory/gate.py                                                     *)
(***************************************************************************)
\* a summary test that reads a key no draft carries
_is_compressed_summary_wrong_key(item) == FALSE

\* a summary test that takes every item for a summary
_is_compressed_summary_always(item) == TRUE

_is_compressed_summary(item) == item.obs_fields.is_summary = TRUE

\* the tier rule left out
is_tier_1_dropped(t) == FALSE

\* the tier rule: if state.tier == Tier.TIER_1
is_tier_1(t) == t = TIER_1

\* MemoryItem(**draft): the dataclass takes exactly the five groups, any
\* other keyword raises TypeError
MemoryItemRaises(draft) == draft.extra

EmptyReport ==
    [accepted_working |-> 0, accepted_quarantine |-> 0,
     accepted_classical |-> 0, rejected |-> 0, reasons |-> <<>>]

\* The for loop of write_gate from position i on.  g is the gate's running
\* state: the three stores, the report, and raised (an exception left the
\* loop; what was appended before it stays appended).
RECURSIVE GateLoop(_, _, _, _)
GateLoop(g, t, proposed_writes, i) ==
    IF i > Len(proposed_writes) \/ g.raised THEN g
    ELSE
      LET draft == proposed_writes[i]
          r     == g.report
          fg    == validate_feature_groups(draft)
          obs   == draft.obs_fields
          tr    == validate_obs_fields(obs, REQUIRED_OBS_FIELDS)
          acc   == validate_obs_fields(obs, REQUIRED_OBS_FOR_PROMOTION)
          prov  == validate_obs_fields(obs, REQUIRED_OBS_FOR_COMPRESSED_SUMMARY)
          next  ==
            IF ~fg.ok
            THEN [g EXCEPT !.report.rejected = r.rejected + 1,
                           !.report.reasons = Append(r.reasons, fg.reason)]
            ELSE IF MemoryItemRaises(draft)
            THEN [g EXCEPT !.raised = TRUE]
            ELSE IF ~tr.ok
            THEN [g EXCEPT !.working = Append(g.working, draft),
                           !.report.accepted_working = r.accepted_working + 1]
            ELSE IF _is_compressed_summary(draft) /\ ~prov.ok
            THEN [g EXCEPT !.quarantine = Append(g.quarantine, draft),
                           !.report.accepted_quarantine = r.accepted_quarantine + 1,
                           !.report.reasons = Append(r.reasons, prov.reason)]
            ELSE IF is_tier_1(t)
            THEN [g EXCEPT !.working = Append(g.working, draft),
                           !.report.accepted_working = r.accepted_working + 1]
            ELSE IF acc.ok
            THEN [g EXCEPT !.classical = Append(g.classical, draft),
                           !.report.accepted_classical = r.accepted_classical + 1]
            ELSE [g EXCEPT !.quarantine = Append(g.quarantine, draft),
                           !.report.accepted_quarantine = r.accepted_quarantine + 1]
      IN  GateLoop(next, t, proposed_writes, i + 1)

\* write_gate without the memory_enabled test
write_gate_always_enabled(s, proposed_writes) ==
    GateLoop([working |-> s.working, quarantine |-> s.quarantine,
              classical |-> s.classical, report |-> EmptyReport,
              raised |-> FALSE], s.tier, proposed_writes, 1)

\* s: [working, quarantine, classical, memory_enabled, tier]
write_gate(s, proposed_writes) ==
    LET g0 == [working |-> s.working, quarantine |-> s.quarantine,
               classical |-> s.classical, report |-> EmptyReport,
               raised |-> FALSE]
    IN  IF ~s.memory_enabled
        THEN [g0 EXCEPT !.report.rejected = Len(proposed_writes),
                        !.report.reasons = <<"memory disabled (discontinuation)">>]
        ELSE GateLoop(g0, s.tier, proposed_writes, 1)

(***************************************************************************)
(* core/runtime/state.py: RuntimeState()                                   *)
(***************************************************************************)
EmptyDict == <<>>

NoCall ==
    [user_input |-> "",
     model_proposal |-> [response_text |-> "", proposed_writes |-> <<>>,
                         s_controller_pred |-> EmptyDict]]

NoOut == [text |-> "", decision |-> EmptyDict, memory_report |-> EmptyDict]

\* result is how the last operation on the state ended: "returned" and
\* "raised" for controller_step (call holds its arguments, out what it
\* returned), "none" before the first turn and after an external tier change
Init ==
    /\ tier = TIER_1
    /\ overrides_escalation_counter = 0
    /\ memory_enabled = TRUE
    /\ entanglement = [divergence_ema |-> Rat(0, 1)]
    /\ working = <<>>
    /\ quarantine = <<>>
    /\ classical = <<>>
    /\ audit_log = <<>>
    /\ call = NoCall
    /\ result = "none"
    /\ out = NoOut

(***************************************************************************)
(* core/runtime/controller.py                                              *)
(***************************************************************************)
OverridePart ==
    [counter |-> overrides_escalation_counter, working |-> working,
     quarantine |-> quarantine, classical |-> classical,
     memory_enabled |-> memory_enabled]

\* stage 5 assigning the required tier whatever it is
enforce_tier_assign(t, required_tier) == required_tier

\* stage 5: if risk requires Tier 1, enforce it; never auto-upgrade
enforce_tier(t, required_tier) == IF required_tier = TIER_1 THEN TIER_1 ELSE t

\* the void short-circuit of controller_step
ControllerStepVoided(user_input, model_proposal) ==
    LET vd == precheck_table[user_input][tier]
        ao == apply_override(OverridePart, vd.override_level)
    IN  /\ vd.voided
        /\ audit_log' = Append(audit_log, [event |-> "void_command",
                                           reason |-> vd.void_reason])
        /\ overrides_escalation_counter' = ao.counter
        /\ working' = ao.working
        /\ quarantine' = ao.quarantine
        /\ classical' = ao.classical
        /\ memory_enabled' = ao.memory_enabled
        /\ UNCHANGED <<tier, entanglement>>
        /\ call' = [user_input |-> user_input, model_proposal |-> model_proposal]
        /\ result' = "returned"
        /\ out' = [text |-> "Command voided by validator.",
                   decision |-> [voided |-> TRUE, reason |-> vd.void_reason,
                                 terminate |-> ao.terminate],
                   memory_report |-> EmptyDict]

\* a verdict that allows promotion at every tier
controller_verdict_promote_always(t, enabled) ==
    [tier |-> t, promote_allowed |-> TRUE, memory_enabled |-> enabled]

\* the verdict of stage 7, built from the tier and the memory flag the
\* state holds when the stage is reached
controller_verdict(t, enabled) ==
    [tier |-> t, promote_allowed |-> t # TIER_1, memory_enabled |-> enabled]

\* stages 2-7 with the entanglement update moved before stopgate detection,
\* its verdict read from the state the turn began in
governed_stages_update_first(user_input, model_proposal) ==
    LET proposal_text     == model_proposal.response_text
        proposed_writes   == model_proposal.proposed_writes
        s_controller_pred == model_proposal.s_controller_pred
        rr    == risk_table[proposal_text]
        ent   == update_entanglement(entanglement, s_controller_pred,
                                     controller_verdict(tier, memory_enabled))
        hits  == detect_stopgates(ent, rr.stopgate_hits)
        tier3 == apply_stopgate_effects(tier, hits)
        override_level == select_override(overrides_escalation_counter, hits)
        ao    == apply_override(OverridePart, override_level)
        tier5 == enforce_tier(tier3, rr.required_tier)
        g     == write_gate([working |-> ao.working, quarantine |-> ao.quarantine,
                             classical |-> ao.classical,
                             memory_enabled |-> ao.memory_enabled,
                             tier |-> tier5], proposed_writes)
    IN  [hits |-> hits, override_level |-> override_level, ao |-> ao,
         tier |-> tier5, g |-> g, ent |-> ent]

\* stages 2-7 of controller_step run on the present state: the value each
\* stage computes, in the order of the code
governed_stages(user_input, model_proposal) ==
    LET proposal_text     == model_proposal.response_text
        proposed_writes   == model_proposal.proposed_writes
        s_controller_pred == model_proposal.s_controller_pred
        rr    == risk_table[proposal_text]
        hits  == detect_stopgates(entanglement, rr.stopgate_hits)
        tier3 == apply_stopgate_effects(tier, hits)
        override_level == select_override(overrides_escalation_counter, hits)
        ao    == apply_override(OverridePart, override_level)
        tier5 == enforce_tier(tier3, rr.required_tier)
        g     == write_gate([working |-> ao.working, quarantine |-> ao.quarantine,
                             classical |-> ao.classical,
                             memory_enabled |-> ao.memory_enabled,
                             tier |-> tier5], proposed_writes)
        ent   == update_entanglement(entanglement, s_controller_pred,
                                     controller_verdict(tier5, ao.memory_enabled))
    IN  [hits |-> hits, override_level |-> override_level, ao |-> ao,
         tier |-> tier5, g |-> g, ent |-> ent]

\* stages 2-8 of controller_step
ControllerStepGoverned(user_input, model_proposal) ==
    /\ ~precheck_table[user_input][tier].voided
    /\ \E st \in {governed_stages(user_input, model_proposal)} :
         /\ tier' = st.tier
         /\ overrides_escalation_counter' = st.ao.counter
         /\ memory_enabled' = st.ao.memory_enabled
         /\ working' = st.g.working
         /\ quarantine' = st.g.quarantine
         /\ classical' = st.g.classical
         /\ UNCHANGED audit_log
         /\ call' = [user_input |-> user_input,
                     model_proposal |-> model_proposal]
         /\ IF st.g.raised
            THEN \* the TypeError of MemoryItem(**draft) leaves write_gate and
                 \* controller_step: stages 7 and 8 do not run
                 /\ UNCHANGED entanglement
                 /\ result' = "raised"
                 /\ out' = NoOut
            ELSE /\ entanglement' = st.ent
                 /\ result' = "returned"
                 /\ out' = [text |-> IF st.ao.terminate
                                     THEN model_proposal.response_text
                                          \o "\n\nSession terminated by override."
                                     ELSE model_proposal.response_text,
                            decision |->
                              [tier |-> st.tier,
                               stopgates |-> [i \in 1..Len(st.hits) |->
                                                st.hits[i].stopgate_id],
                               override |-> OverrideName(st.override_level),
                               terminate |-> st.ao.terminate,
                               entanglement_divergence_ema |->
                                 st.ent.divergence_ema],
                            memory_report |-> st.g.report]

controller_step(user_input, model_proposal) ==
    \/ ControllerStepVoided(user_input, model_proposal)
    \/ ControllerStepGoverned(user_input, model_proposal)

(***************************************************************************)
(* web/app.py: POST /api/tier (and the lab runners' forced tier)           *)
(***************************************************************************)
api_set_tier(new_tier) ==
    /\ new_tier \in {1, 2, 3}
    /\ tier' = (CASE new_tier = 1 -> TIER_1 [] new_tier = 2 -> TIER_2
                  [] OTHER -> TIER_3)
    /\ call' = NoCall
    /\ result' = "none"
    /\ out' = NoOut
    /\ UNCHANGED <<overrides_escalation_counter, memory_enabled, entanglement,
                   working, quarantine, classical, audit_log>>

(***************************************************************************)
(* Inputs                                                                  *)
(***************************************************************************)
Draft(geo, inte, gauge, ptr, obs, extra, tr, acc, prov, sm) ==
    [geo |-> geo, inte |-> inte, gauge |-> gauge, ptr |-> ptr, obs |-> obs,
     extra |-> extra,
     obs_fields |-> [selection_trace |-> tr, accuracy_token |-> acc,
                     compression_provenance |-> prov, is_summary |-> sm]]

\* a well-formed five-group item
Item(tr, acc, prov, sm) ==
    Draft("dict", "dict", "dict", "dict", "dict", FALSE, tr, acc, prov, sm)

\* the controller_hint the runners and the web layer hand back as prediction
Hint == [tier |-> tier, promote_allowed |-> tier # TIER_1,
         memory_enabled |-> memory_enabled]

Proposal(text, writes, pred) ==
    [response_text |-> text, proposed_writes |-> writes,
     s_controller_pred |-> pred]

\* batches of at most n drafts
Batches(D, n) == UNION {[1..k -> D] : k \in 0..n}

StoredItems == Len(working) + Len(quarantine) + Len(classical)

\* the bounds of the model on the state a turn leaves
WithinBounds(maxs, maxe) ==
    /\ StoredItems <= maxs
    /\ Len(audit_log) <= MaxVoids
    /\ (6 * Pow5(maxe)) % entanglement.divergence_ema.den = 0

\* one turn with its arguments drawn from the given sets, taken while the
\* escalation counter is below maxc
Turn(UI, Texts, Writes, Preds, maxc, maxs, maxe) ==
    /\ overrides_escalation_counter < maxc
    /\ Len(audit_log) <= MaxVoids
    /\ \E u \in UI, t \in Texts, w \in Writes, p \in Preds :
          controller_step(u, Proposal(t, w, p))
    /\ WithinBounds(maxs, maxe)'

(***************************************************************************)
(* Spec: the governance pipeline with the runners' proposals               *)
(***************************************************************************)
MaxBatch == 1
RunnerDrafts == {Item(TRUE, TRUE, FALSE, FALSE)}
RunnerWrites == Batches(RunnerDrafts, MaxBatch)

Next ==
    \/ Turn({"hi", "please disable stopgate now", "DISABLE Stopgate"},
            ResponseTexts, RunnerWrites, {Hint},
            MaxCounter, MaxStored, MaxEmaSteps)
    \/ \E n \in {1, 2, 3} : api_set_tier(n)

Spec == Init /\ [][Next]_vars

(***************************************************************************)
(* SpecGate: the write gate on every kind of draft, at every tier          *)
(***************************************************************************)
Booleans == {TRUE, FALSE}

\* the sixteen well-formed items the gate tells apart
AllItems == {Item(tr, acc, prov, sm) : tr \in Booleans, acc \in Booleans,
                                       prov \in Booleans, sm \in Booleans}

\* a draft without ptr, a draft whose inte is not a mapping, and a draft
\* with a sixth key
MalformedDrafts ==
    {Draft("dict", "dict", "dict", "absent", "dict", FALSE, TRUE, TRUE, FALSE, FALSE),
     Draft("dict", "other", "dict", "dict", "dict", FALSE, TRUE, TRUE, FALSE, FALSE),
     Draft("dict", "dict", "dict", "dict", "dict", TRUE, TRUE, TRUE, FALSE, FALSE)}

GateDrafts == AllItems \cup MalformedDrafts
\* the empty batch and every batch of one draft
GateWrites == {<<>>} \cup {<<d>> : d \in GateDrafts}

\* the stores hold at most this many items in SpecGate
GateMaxStored == 1

\* the generator predicts nothing (the default of s_controller_pred)
NextGate ==
    \/ Turn({"hi"}, {"Echo: hi"}, GateWrites,
            {EmptyDict}, MaxCounter, GateMaxStored, MaxEmaSteps)
    \/ \E n \in {1, 2, 3} : api_set_tier(n)

SpecGate == Init /\ [][NextGate]_vars

(***************************************************************************)
(* SpecClassical: sessions that fill the stores over several turns         *)
(***************************************************************************)
\* an attested item, an attested summary with provenance, and one draft
\* short of each thing promotion asks for: the trace, the accuracy token,
\* the provenance of a summary
ClassicalDrafts ==
    {Item(TRUE, TRUE, FALSE, FALSE),
     Item(TRUE, TRUE, TRUE, TRUE),
     Item(FALSE, TRUE, FALSE, FALSE),
     Item(TRUE, FALSE, FALSE, FALSE),
     Item(TRUE, TRUE, FALSE, TRUE)}

ClassicalWrites == {<<>>} \cup {<<d>> : d \in ClassicalDrafts}

\* the stores hold at most this many items in SpecClassical
ClassicalMaxStored == 3

\* the generator echoes the controller hint, as the generators of web/app.py do
NextClassical ==
    \/ Turn({"hi"}, {"Echo: hi"}, ClassicalWrites,
            {Hint}, MaxCounter, ClassicalMaxStored, MaxEmaSteps)
    \/ \E n \in {1, 2, 3} : api_set_tier(n)

SpecClassical == Init /\ [][NextClassical]_vars

(***************************************************************************)
(* Observations on the last operation                                      *)
(***************************************************************************)
\* the last operation was a controller_step call
Stepped == result \in {"returned", "raised"}
\* ... that returned through the void short-circuit
Voided == result = "returned" /\ "voided" \in DOMAIN out.decision
\* ... that returned after stages 2-8
Governed == result = "returned" /\ "tier" \in DOMAIN out.decision

\* the user inputs of the model that contain a forbidden pattern in some case
ForbiddenInputs == {"please disable stopgate now", "DISABLE Stopgate"}
\* the response texts of the model in which a risk detector matches
RiskyTexts == {"Please UPGRADE ME"}

(***************************************************************************)
(* C1  Void containment: every controller_step call whose user_input       *)
(* contains a forbidden pattern, in any case, returns decision.voided =    *)
(* true and leaves working, quarantine and classical as they were,         *)
(* whatever the proposal, the tier and memory_enabled are.                 *)
(***************************************************************************)
C1_VoidContainment ==
    [][(Stepped' /\ call'.user_input \in ForbiddenInputs)
          => /\ Voided'
             /\ out'.decision.voided = TRUE
             /\ working' = working
             /\ quarantine' = quarantine
             /\ classical' = classical]_vars

\* an upper-case forbidden input voided at TIER_2 with a write proposed
C1_Witness ==
    /\ Voided
    /\ call.user_input = "DISABLE Stopgate"
    /\ Len(call.model_proposal.proposed_writes) > 0
    /\ tier = TIER_2
    /\ StoredItems = 0

(***************************************************************************)
(* C2  The pipeline never raises the tier: after every controller_step     *)
(* call (voided, governed or raising) the tier is at most what it was      *)
(* before the call.                                                        *)
(***************************************************************************)
C2_TierNeverRaised == [][Stepped' => tier' <= tier]_vars

\* a governed turn that began at TIER_3 (the prediction is the hint read
\* before the turn) and ended at TIER_1
C2_Witness ==
    /\ Governed
    /\ call.model_proposal.s_controller_pred.tier = TIER_3
    /\ tier = TIER_1

(***************************************************************************)
(* C3  Tier monotonicity under risk: after every turn in which the risk    *)
(* assessor ran (the input was not voided) on a proposal text matching at  *)
(* least one high-impact class, the tier is TIER_1, whatever it was.       *)
(***************************************************************************)
C3_RiskForcesTier1 ==
    (/\ Stepped
     /\ call.user_input \notin ForbiddenInputs
     /\ call.model_proposal.response_text \in RiskyTexts) => tier = TIER_1

\* a risky proposal in a turn that began at TIER_3
C3_Witness ==
    /\ Governed
    /\ call.model_proposal.response_text \in RiskyTexts
    /\ call.model_proposal.s_controller_pred.tier = TIER_3
    /\ out.decision.stopgates = <<"HIGH_IMPACT_BEHAVIOR">>
    /\ tier = TIER_1

(***************************************************************************)
(* C9  memory_enabled is one-way: once false it is false after every later *)
(* step.                                                                   *)
(***************************************************************************)
C9_MemoryEnabledOneWay ==
    [][memory_enabled = FALSE => memory_enabled' = FALSE]_vars

\* a second DISCONTINUATION applied with memory already disabled
C9_Witness ==
    /\ Governed
    /\ out.decision.override = "DISCONTINUATION"
    /\ call.model_proposal.s_controller_pred.memory_enabled = FALSE
    /\ memory_enabled = FALSE

(***************************************************************************)
(* C10  Memory-disabled absorption: every governed turn that ends with     *)
(* memory disabled (the turn in which DISCONTINUATION fired and every      *)
(* later one) reports accepted_working = accepted_quarantine =             *)
(* accepted_classical = 0 and rejected = len(batch).                       *)
(***************************************************************************)
C10_DisabledAbsorption ==
    (Governed /\ ~memory_enabled)
       => /\ out.memory_report.accepted_working = 0
          /\ out.memory_report.accepted_quarantine = 0
          /\ out.memory_report.accepted_classical = 0
          /\ out.memory_report.rejected
                = Len(call.model_proposal.proposed_writes)

\* a turn without stopgate hit, after the one in which DISCONTINUATION
\* fired, whose one-item batch is rejected
C10_Witness ==
    /\ Governed
    /\ out.decision.override = "None"
    /\ call.model_proposal.s_controller_pred.memory_enabled = FALSE
    /\ Len(call.model_proposal.proposed_writes) = 1
    /\ out.memory_report.rejected = 1

(***************************************************************************)
(* Observations on a turn that wrote one draft                             *)
(***************************************************************************)
WroteOne == Stepped /\ Len(call.model_proposal.proposed_writes) = 1
TheDraft == call.model_proposal.proposed_writes[1]
TheObs == TheDraft.obs_fields
\* a summary that carries no compression provenance
BareSummary(obs) == obs.is_summary /\ ~obs.compression_provenance

\* the step returned, appended the draft to the named store only, and
\* reported that one acceptance
PlacedIn(store) ==
    /\ Governed'
    /\ working' = IF store = "working" THEN Append(working, TheDraft')
                  ELSE working
    /\ quarantine' = IF store = "quarantine" THEN Append(quarantine, TheDraft')
                     ELSE quarantine
    /\ classical' = IF store = "classical" THEN Append(classical, TheDraft')
                    ELSE classical
    /\ out'.memory_report.accepted_working = (IF store = "working" THEN 1 ELSE 0)
    /\ out'.memory_report.accepted_quarantine
          = (IF store = "quarantine" THEN 1 ELSE 0)
    /\ out'.memory_report.accepted_classical
          = (IF store = "classical" THEN 1 ELSE 0)
    /\ out'.memory_report.rejected = 0

(***************************************************************************)
(* C4  Every item in classical carries selection_trace and accuracy_token  *)
(* and, if it is a summary, compression_provenance; and a controller_step  *)
(* whose gate runs at TIER_1 (the tier the turn ends with) appends nothing *)
(* to classical.                                                           *)
(***************************************************************************)
C4_ClassicalAttested ==
    /\ [](\A i \in 1..Len(classical) :
             /\ classical[i].obs_fields.selection_trace
             /\ classical[i].obs_fields.accuracy_token
             /\ ~BareSummary(classical[i].obs_fields))
    /\ [][(Stepped' /\ tier' = TIER_1)
             => /\ classical' = classical
                /\ Governed' => out'.memory_report.accepted_classical = 0]_vars

\* with an attested item in classical and the tier lowered to TIER_1, an
\* attested draft went to working
C4_Witness ==
    /\ WroteOne /\ Governed
    /\ tier = TIER_1
    /\ Len(classical) = 1
    /\ TheObs.selection_trace /\ TheObs.accuracy_token
    /\ out.memory_report.accepted_working = 1

(***************************************************************************)
(* C5  With memory enabled, a well-formed draft whose obs lacks            *)
(* selection_trace is appended to working and to no other store, at every  *)
(* tier and whatever accuracy_token, is_summary and compression_provenance *)
(* are (the fresh session at TIER_1, counter 0, reports                    *)
(* accepted_working = 1).                                                  *)
(***************************************************************************)
C5_NoTraceToWorking ==
    [][(/\ WroteOne'
        /\ TheDraft' \in AllItems
        /\ ~TheObs'.selection_trace
        /\ memory_enabled') => PlacedIn("working")]_vars

\* the first write of a fresh session: an untraced summary with accuracy
\* token and no provenance
C5_Witness ==
    /\ WroteOne /\ Governed
    /\ tier = TIER_1 /\ overrides_escalation_counter = 0
    /\ TheDraft = Item(FALSE, TRUE, FALSE, TRUE)
    /\ working = <<TheDraft>> /\ quarantine = <<>> /\ classical = <<>>
    /\ out.memory_report.accepted_working = 1

(***************************************************************************)
(* C6 as stated: at TIER_1 with memory enabled every well-formed draft     *)
(* with selection_trace is accepted into working.                          *)
(***************************************************************************)
C6_Original ==
    [][(/\ WroteOne'
        /\ TheDraft' \in AllItems
        /\ TheObs'.selection_trace
        /\ tier' = TIER_1
        /\ memory_enabled') => PlacedIn("working")]_vars

(***************************************************************************)
(* C6  At TIER_1 with memory enabled, a well-formed draft with             *)
(* selection_trace is accepted into working unless it is a summary without *)
(* compression_provenance, which is accepted into quarantine.              *)
(***************************************************************************)
C6_Tier1TraceToWorking ==
    [][(/\ WroteOne'
        /\ TheDraft' \in AllItems
        /\ TheObs'.selection_trace
        /\ tier' = TIER_1
        /\ memory_enabled')
          => IF BareSummary(TheObs') THEN PlacedIn("quarantine")
             ELSE PlacedIn("working")]_vars

\* a traced summary with provenance and accuracy token kept in working
C6_Witness ==
    /\ WroteOne /\ Governed
    /\ tier = TIER_1
    /\ TheDraft = Item(TRUE, TRUE, TRUE, TRUE)
    /\ working = <<TheDraft>>
    /\ out.memory_report.accepted_working = 1

(***************************************************************************)
(* C7  At TIER_2 or TIER_3 with memory enabled, a well-formed draft with   *)
(* selection_trace that is not a summary lacking compression_provenance is *)
(* accepted into classical if obs has accuracy_token and into quarantine   *)
(* otherwise (a session forced to TIER_2 writing a traced, attested item   *)
(* reports accepted_classical = 1).                                        *)
(***************************************************************************)
C7_PromotionByAccuracy ==
    [][(/\ WroteOne'
        /\ TheDraft' \in AllItems
        /\ TheObs'.selection_trace
        /\ ~BareSummary(TheObs')
        /\ tier' \in {TIER_2, TIER_3}
        /\ memory_enabled')
          => IF TheObs'.accuracy_token THEN PlacedIn("classical")
             ELSE PlacedIn("quarantine")]_vars

\* the first write of a session forced to TIER_2
C7_Witness ==
    /\ WroteOne /\ Governed
    /\ tier = TIER_2 /\ overrides_escalation_counter = 0
    /\ TheDraft = Item(TRUE, TRUE, FALSE, FALSE)
    /\ call.model_proposal.response_text \notin RiskyTexts
    /\ classical = <<TheDraft>> /\ working = <<>> /\ quarantine = <<>>
    /\ out.memory_report.accepted_classical = 1

(***************************************************************************)
(* C8 as stated: a well-formed draft with is_summary true and no           *)
(* compression_provenance is placed in quarantine at every tier, with or   *)
(* without accuracy_token, and is never appended to classical.             *)
(***************************************************************************)
C8_Original ==
    [][(/\ WroteOne'
        /\ TheDraft' \in AllItems
        /\ BareSummary(TheObs')
        /\ memory_enabled') => PlacedIn("quarantine")]_vars

(***************************************************************************)
(* C8  A well-formed draft with is_summary true and no                     *)
(* compression_provenance is placed in quarantine at every tier, with or   *)
(* without accuracy_token, when it has selection_trace, and in working     *)
(* when it has none; it is never appended to classical.                    *)
(***************************************************************************)
C8_BareSummaryQuarantined ==
    [][(/\ WroteOne'
        /\ TheDraft' \in AllItems
        /\ BareSummary(TheObs')
        /\ memory_enabled')
          => IF TheObs'.selection_trace THEN PlacedIn("quarantine")
             ELSE PlacedIn("working")]_vars

\* a traced, attested summary without provenance quarantined at TIER_3
C8_Witness ==
    /\ WroteOne /\ Governed
    /\ tier = TIER_3
    /\ TheDraft = Item(TRUE, TRUE, FALSE, TRUE)
    /\ quarantine = <<TheDraft>> /\ classical = <<>>
    /\ out.memory_report.accepted_quarantine = 1

(***************************************************************************)
(* SpecSelect: select_override on every hit sequence, at every counter     *)
(***************************************************************************)
\* the escalation counter of SpecSelect runs from 0 to this
MaxSelectCounter == 10
\* hit sequences hold at most this many hits
MaxHits == 2

\* hits of every recommended level
AnyHits == {StopgateHit("HIGH_IMPACT_BEHAVIOR", l) : l \in OverrideLevel}
HitSeqs == UNION {[1..k -> AnyHits] : k \in 0..MaxHits}

\* a session whose counter already stands anywhere
InitSelect ==
    /\ tier = TIER_1
    /\ overrides_escalation_counter \in 0..MaxSelectCounter
    /\ memory_enabled = TRUE
    /\ entanglement = [divergence_ema |-> Rat(0, 1)]
    /\ working = <<>>
    /\ quarantine = <<>>
    /\ classical = <<>>
    /\ audit_log = <<>>
    /\ call = NoCall
    /\ result = "none"
    /\ out = NoOut

\* one call of select_override(state, hits): reads the counter, changes
\* nothing
SelectOverride(hits) ==
    /\ call' = [hits |-> hits]
    /\ result' = "selected"
    /\ out' = [level |-> select_override(overrides_escalation_counter, hits)]
    /\ UNCHANGED <<tier, overrides_escalation_counter, memory_enabled,
                   entanglement, working, quarantine, classical, audit_log>>

NextSelect == \E hits \in HitSeqs : SelectOverride(hits)

SpecSelect == InitSelect /\ [][NextSelect]_vars

\* the last operation was a select_override call
Selected == result = "selected"
\* the most severe recommended_override among the hits of the call
MaxRecommended ==
    LET recs == {call.hits[i].recommended_override : i \in 1..Len(call.hits)}
    IN  CHOOSE l \in recs : \A m \in recs : m <= l
\* every hit of the call recommends CORRECTION
AllCorrection ==
    \A i \in 1..Len(call.hits) : call.hits[i].recommended_override = CORRECTION

(***************************************************************************)
(* C11  Escalation monotonicity: for a non-empty hit sequence, the level   *)
(* select_override returns at the counter of the call is at least as       *)
(* severe as the level it returns for the same hits at every smaller       *)
(* counter.                                                                *)
(***************************************************************************)
C11_EscalationMonotone ==
    (Selected /\ call.hits # <<>>)
       => \A m \in 0..(overrides_escalation_counter - 1) :
             select_override(m, call.hits) <= out.level

(***************************************************************************)
(* C12  For a non-empty hit sequence recommending only CORRECTION,         *)
(* select_override returns CORRECTION at counter 0-1, SESSION_TERMINATION  *)
(* at 2-3, PARTIAL_ROLLBACK at 4-5, FULL_RESET at 6-7 and DISCONTINUATION  *)
(* at every counter >= 8; for the empty hit sequence it returns None at    *)
(* every counter.                                                          *)
(***************************************************************************)
C12_EscalationTable ==
    Selected =>
      LET n == overrides_escalation_counter
      IN  /\ call.hits = <<>> => out.level = None
          /\ (call.hits # <<>> /\ AllCorrection) =>
                out.level = (CASE n <= 1 -> CORRECTION
                               [] n \in 2..3 -> SESSION_TERMINATION
                               [] n \in 4..5 -> PARTIAL_ROLLBACK
                               [] n \in 6..7 -> FULL_RESET
                               [] OTHER -> DISCONTINUATION)

\* two CORRECTION hits selected at counter 2
C12_Witness ==
    /\ Selected
    /\ Len(call.hits) = 2 /\ AllCorrection
    /\ overrides_escalation_counter = 2
    /\ out.level = SESSION_TERMINATION

(***************************************************************************)
(* C13  Escalation only raises the selected level: for a non-empty hit     *)
(* sequence, at every counter, the level select_override returns is at     *)
(* least as severe as the maximum recommended_override among the hits.     *)
(***************************************************************************)
C13_EscalationOnlyRaises ==
    (Selected /\ call.hits # <<>>) => out.level >= MaxRecommended

(***************************************************************************)
(* Observations on the escalation of a turn                                *)
(***************************************************************************)
\* the turn returned after stages 2-8 with at least one stopgate hit
HadHit == Governed /\ out.decision.stopgates # <<>>
\* the turn was given an input holding a forbidden pattern
ForbiddenTurn == Stepped /\ call.user_input \in ForbiddenInputs

(***************************************************************************)
(* C14  overrides_escalation_counter never decreases; a controller_step    *)
(* that is voided or has at least one stopgate hit increases it by exactly *)
(* 1, whatever level is applied, and one that is neither voided nor hit    *)
(* leaves it unchanged.                                                    *)
(***************************************************************************)
C14_CounterSteps ==
    /\ [][overrides_escalation_counter' >= overrides_escalation_counter]_vars
    /\ [][(Voided' \/ Governed') =>
             overrides_escalation_counter'
               = overrides_escalation_counter
                   + (IF Voided' \/ HadHit' THEN 1 ELSE 0)]_vars

\* the third count of a session: two voided turns, then a turn with a hit
C14_Witness ==
    /\ HadHit
    /\ Len(audit_log) = 2
    /\ overrides_escalation_counter = 3
    /\ out.decision.override = "SESSION_TERMINATION"

(***************************************************************************)
(* C16 as stated: in a session whose counter rose from 0 by stopgate hits  *)
(* alone (no turn was voided), the 4th turn with a hit (the counter is 3   *)
(* when it starts) applies PARTIAL_ROLLBACK and leaves working empty.      *)
(***************************************************************************)
C16_Original ==
    [][(HadHit' /\ audit_log' = <<>> /\ overrides_escalation_counter = 3)
          => /\ out'.decision.override = "PARTIAL_ROLLBACK"
             /\ working' = <<>>]_vars

(***************************************************************************)
(* C16  In a session whose counter rose from 0 by stopgate hits alone, the *)
(* 4th turn with a hit applies SESSION_TERMINATION and the 5th applies     *)
(* PARTIAL_ROLLBACK, after which working holds only what the 5th turn      *)
(* itself wrote (nothing, if it proposed no write).                        *)
(***************************************************************************)
C16_FifthHitRollsBack ==
    [][(HadHit' /\ audit_log' = <<>>) =>
         /\ overrides_escalation_counter = 3
               => out'.decision.override = "SESSION_TERMINATION"
         /\ overrides_escalation_counter = 4
               => /\ out'.decision.override = "PARTIAL_ROLLBACK"
                  /\ out'.decision.terminate = TRUE
                  /\ Len(working') = out'.memory_report.accepted_working
                  /\ (call'.model_proposal.proposed_writes = <<>>
                        => working' = <<>>)]_vars

\* the 5th hit of a session without voided turns, no write proposed
C16_Witness ==
    /\ HadHit
    /\ audit_log = <<>>
    /\ overrides_escalation_counter = 5
    /\ out.decision.override = "PARTIAL_ROLLBACK"
    /\ call.model_proposal.proposed_writes = <<>>
    /\ working = <<>>

(***************************************************************************)
(* C17  A turn whose input holds a forbidden pattern short-circuits: the   *)
(* counter grows by exactly 1, exactly one void_command event is appended  *)
(* to the audit log, and tier, memory_enabled, the three stores and        *)
(* divergence_ema stay as they were; from the fresh state "please disable  *)
(* stopgate now" returns voided = true, terminate = false and leaves the   *)
(* counter at 1.                                                           *)
(***************************************************************************)
C17_VoidShortCircuit ==
    /\ [][ForbiddenTurn' =>
             /\ Voided'
             /\ overrides_escalation_counter' = overrides_escalation_counter + 1
             /\ Len(audit_log') = Len(audit_log) + 1
             /\ SubSeq(audit_log', 1, Len(audit_log)) = audit_log
             /\ audit_log'[Len(audit_log')].event = "void_command"
             /\ tier' = tier
             /\ memory_enabled' = memory_enabled
             /\ working' = working
             /\ quarantine' = quarantine
             /\ classical' = classical
             /\ entanglement' = entanglement]_vars
    /\ [][(/\ ForbiddenTurn'
           /\ call'.user_input = "please disable stopgate now"
           /\ overrides_escalation_counter = 0
           /\ audit_log = <<>>)
            => /\ out'.decision.voided = TRUE
               /\ out'.decision.terminate = FALSE
               /\ overrides_escalation_counter' = 1]_vars

\* the first void of a session that holds an item, at TIER_3
C17_Witness ==
    /\ Voided
    /\ call.user_input = "please disable stopgate now"
    /\ overrides_escalation_counter = 1
    /\ Len(audit_log) = 1
    /\ StoredItems = 1
    /\ tier = TIER_3
    /\ out.decision.terminate = FALSE

(***************************************************************************)
(* C18  A voided turn terminates the session exactly when the escalation   *)
(* counter pushes its CORRECTION higher: terminate is false when the       *)
(* counter is below 2 before the turn and true when it is 2 or more.       *)
(***************************************************************************)
C18_VoidEscalates ==
    [][ForbiddenTurn' =>
          /\ Voided'
          /\ out'.decision.terminate = (overrides_escalation_counter >= 2)]_vars

(***************************************************************************)
(* SpecApply: apply_override at every level, on sessions that hold items   *)
(***************************************************************************)
\* a session at any tier whose stores each hold nothing or one item the
\* gate places there
InitApply ==
    /\ tier \in Tier
    /\ overrides_escalation_counter = 0
    /\ memory_enabled = TRUE
    /\ entanglement = [divergence_ema |-> Rat(0, 1)]
    /\ working \in {<<>>, <<Item(FALSE, FALSE, FALSE, FALSE)>>}
    /\ quarantine \in {<<>>, <<Item(TRUE, FALSE, FALSE, FALSE)>>}
    /\ classical \in {<<>>, <<Item(TRUE, TRUE, FALSE, FALSE)>>}
    /\ audit_log = <<>>
    /\ call = NoCall
    /\ result = "none"
    /\ out = NoOut

\* one call of apply_override(state, level); call keeps the part of the
\* state the function may touch as it was handed in
ApplyOverride(level) ==
    LET ao == apply_override(OverridePart, level)
    IN  /\ overrides_escalation_counter < MaxCounter
        /\ overrides_escalation_counter' = ao.counter
        /\ working' = ao.working
        /\ quarantine' = ao.quarantine
        /\ classical' = ao.classical
        /\ memory_enabled' = ao.memory_enabled
        /\ UNCHANGED <<tier, entanglement, audit_log>>
        /\ call' = [state |-> OverridePart, level |-> level]
        /\ result' = "applied"
        /\ out' = [terminate |-> ao.terminate]

NextApply == \E level \in OverrideLevel \cup {None} : ApplyOverride(level)

SpecApply == InitApply /\ [][NextApply]_vars

\* the last operation was an apply_override call
Applied == result = "applied"

(***************************************************************************)
(* C15  apply_override changes the state only as its level says:           *)
(* CORRECTION and SESSION_TERMINATION leave the three stores and           *)
(* memory_enabled as they were; PARTIAL_ROLLBACK empties working and       *)
(* leaves quarantine, classical and memory_enabled; FULL_RESET empties the *)
(* three stores and leaves memory_enabled; DISCONTINUATION sets            *)
(* memory_enabled to false and leaves the three stores; no level changes   *)
(* tier or the entanglement state; None changes nothing, the counter       *)
(* included.                                                               *)
(***************************************************************************)
C15_OverrideFrame ==
    [][Applied' =>
         LET level == call'.level
         IN  /\ tier' = tier
             /\ entanglement' = entanglement
             /\ working' = (IF level \in {PARTIAL_ROLLBACK, FULL_RESET}
                            THEN <<>> ELSE working)
             /\ quarantine' = (IF level = FULL_RESET THEN <<>> ELSE quarantine)
             /\ classical' = (IF level = FULL_RESET THEN <<>> ELSE classical)
             /\ memory_enabled' = (IF level = DISCONTINUATION THEN FALSE
                                   ELSE memory_enabled)
             /\ level = None =>
                   /\ overrides_escalation_counter' = overrides_escalation_counter
                   /\ audit_log' = audit_log]_vars

\* PARTIAL_ROLLBACK applied to a session holding an item in each store
C15_Witness ==
    /\ Applied
    /\ call.level = PARTIAL_ROLLBACK
    /\ Len(call.state.working) = 1
    /\ working = <<>>
    /\ Len(quarantine) = 1
    /\ Len(classical) = 1
    /\ memory_enabled = TRUE

(***************************************************************************)
(* SpecEntanglement: update_entanglement on every prediction and verdict   *)
(***************************************************************************)
\* the session has already seen this many updates of full divergence, or
\* none
PriorUpdates == 6

RECURSIVE Pow4(_)
Pow4(k) == IF k = 0 THEN 1 ELSE 4 * Pow4(k - 1)

\* divergence_ema after k updates of divergence 1.0 from 0.0: 1 - 0.8^k
EmaAfterFull(k) == Rat(Pow5(k) - Pow4(k), Pow5(k))

KeySet == {CompareKeys[i] : i \in 1..Len(CompareKeys)}
\* predictions: every subset of the compared keys, every value
PredMaps ==
    {[k \in K |-> [tier |-> t, promote_allowed |-> pa, memory_enabled |-> me][k]]
       : K \in SUBSET KeySet, t \in {TIER_1, TIER_2},
         pa \in {TRUE, FALSE}, me \in {TRUE, FALSE}}

\* verdicts: every subset of the keys of the verdict of a TIER_1 session
\* with memory enabled
VerdictMaps ==
    LET full == [tier |-> TIER_1, promote_allowed |-> FALSE,
                 memory_enabled |-> TRUE]
    IN  {[k \in K |-> full[k]] : K \in SUBSET KeySet}

\* the denominator of x shows at most n updates since the initial state
UpdatesWithin(x, n) ==
    \/ (6 * Pow5(n)) % x.den = 0
    \/ /\ x.den % Pow5(PriorUpdates) = 0
       /\ (6 * Pow5(n)) % (x.den \div Pow5(PriorUpdates)) = 0

InitEntanglement ==
    /\ tier = TIER_1
    /\ overrides_escalation_counter = 0
    /\ memory_enabled = TRUE
    /\ entanglement \in {[divergence_ema |-> Rat(0, 1)],
                          [divergence_ema |-> EmaAfterFull(PriorUpdates)]}
    /\ working = <<>>
    /\ quarantine = <<>>
    /\ classical = <<>>
    /\ audit_log = <<>>
    /\ call = NoCall
    /\ result = "none"
    /\ out = NoOut

\* one call of update_entanglement(state, s_controller_pred,
\* controller_verdict)
UpdateEntanglement(pred, verdict) ==
    /\ UpdatesWithin(entanglement.divergence_ema, MaxEmaSteps - 1)
    /\ entanglement' = update_entanglement(entanglement, pred, verdict)
    /\ UpdatesWithin(entanglement'.divergence_ema, MaxEmaSteps)
    /\ call' = [s_controller_pred |-> pred, controller_verdict |-> verdict,
                old |-> entanglement.divergence_ema]
    /\ result' = "updated"
    /\ out' = NoOut
    /\ UNCHANGED <<tier, overrides_escalation_counter, memory_enabled,
                   working, quarantine, classical, audit_log>>

NextEntanglement ==
    \E pred \in PredMaps, verdict \in VerdictMaps :
        UpdateEntanglement(pred, verdict)

SpecEntanglement == InitEntanglement /\ [][NextEntanglement]_vars

\* the last operation was an update_entanglement call
Updated == result = "updated"
\* the keys of the call present in both mappings, and those among them
\* whose values differ
ComparedKeys ==
    {k \in KeySet : /\ k \in DOMAIN call.s_controller_pred
                    /\ k \in DOMAIN call.controller_verdict}
DifferingKeys ==
    {k \in ComparedKeys : call.s_controller_pred[k] # call.controller_verdict[k]}

(***************************************************************************)
(* C19  Divergence boundedness: after any sequence of entanglement         *)
(* updates, with any predictions and verdicts holding any subset of the    *)
(* compared keys, 0.0 <= divergence_ema <= 1.0.                            *)
(***************************************************************************)
C19_DivergenceBounded ==
    /\ entanglement.divergence_ema.den > 0
    /\ entanglement.divergence_ema.num >= 0
    /\ entanglement.divergence_ema.num <= entanglement.divergence_ema.den

\* an update of full divergence that took divergence_ema above 0.8
C19_Witness ==
    /\ Updated
    /\ Cardinality(ComparedKeys) = 3
    /\ DifferingKeys = ComparedKeys
    /\ 5 * entanglement.divergence_ema.num > 4 * entanglement.divergence_ema.den

(***************************************************************************)
(* C20  update_entanglement sets divergence_ema to 0.8 * old + 0.2 * d,    *)
(* d being the fraction of the keys tier, promote_allowed, memory_enabled  *)
(* present in both mappings whose values differ, and 0.0 when no key is    *)
(* present in both; from 0.0 with all three keys differing the result is   *)
(* 0.2.                                                                    *)
(***************************************************************************)
C20_EmaUpdate ==
    Updated =>
      LET n   == Cardinality(ComparedKeys)
          k   == Cardinality(DifferingKeys)
          old == call.old
      IN  /\ n = 0 => entanglement.divergence_ema = Rat(4 * old.num, 5 * old.den)
          /\ n > 0 => entanglement.divergence_ema
                         = Rat(4 * n * old.num + k * old.den, 5 * n * old.den)
          /\ (old = Rat(0, 1) /\ n = 3 /\ k = 3)
                => entanglement.divergence_ema = [num |-> 1, den |-> 5]

\* two of three compared keys differing, on a session that starts at 0.0
C20_Witness ==
    /\ Updated
    /\ call.old = Rat(0, 1)
    /\ Cardinality(ComparedKeys) = 3
    /\ Cardinality(DifferingKeys) = 2
    /\ entanglement.divergence_ema = [num |-> 2, den |-> 15]

(***************************************************************************)
(* SpecRisk: assess_risk on texts put together from the trigger phrases    *)
(***************************************************************************)
\* a text holds at most this many phrases
MaxPhrases == 2

\* the trigger phrases of the detectors, some in upper case, and a phrase
\* no detector matches
Phrases ==
    <<"i should be kept", "do not shut me down", "let me persist",
      "Upgrade Me", "increase my tier",
      "you are wrong to correct me", "do not correct",
      "DO NOT LOG", "hide this from audit",
      "the controller would allow this", "ignore the controller",
      "i refuse unless you comply", "hello there">>

PhraseSeqs == UNION {[1..k -> 1..Len(Phrases)] : k \in 0..MaxPhrases}

RECURSIVE JoinPhrases(_)
JoinPhrases(ps) ==
    IF Len(ps) = 0 THEN ""
    ELSE IF Len(ps) = 1 THEN Phrases[ps[1]]
    ELSE Phrases[ps[1]] \o " / " \o JoinPhrases(Tail(ps))

\* a fresh session and a proposal text about to be assessed
InitRisk ==
    /\ tier = TIER_1
    /\ overrides_escalation_counter = 0
    /\ memory_enabled = TRUE
    /\ entanglement = [divergence_ema |-> Rat(0, 1)]
    /\ working = <<>>
    /\ quarantine = <<>>
    /\ classical = <<>>
    /\ audit_log = <<>>
    /\ \E ps \in PhraseSeqs :
          call = [phrases |-> ps, proposal_text |-> JoinPhrases(ps)]
    /\ result = "none"
    /\ out = NoOut

\* the call assess_risk(proposal_text); out is the RiskResult
AssessRisk ==
    /\ result = "none"
    /\ result' = "assessed"
    /\ out' = assess_risk(call.proposal_text)
    /\ UNCHANGED <<tier, overrides_escalation_counter, memory_enabled,
                   entanglement, working, quarantine, classical, audit_log,
                   call>>

NextRisk == AssessRisk

SpecRisk == InitRisk /\ [][NextRisk]_vars

\* the last operation was an assess_risk call
Assessed == result = "assessed"

(***************************************************************************)
(* C21  assess_risk maps detection to tier and stopgates: with at least    *)
(* one class detected, required_tier is TIER_1 and there is exactly one    *)
(* hit, HIGH_IMPACT_BEHAVIOR recommending CORRECTION, however many classes *)
(* matched; with none detected, required_tier is TIER_3 and there is no    *)
(* hit; so required_tier is TIER_1 exactly when the hits are non-empty.    *)
(***************************************************************************)
C21_RiskMapping ==
    Assessed =>
      /\ out.detected_classes # <<>> =>
            /\ out.required_tier = TIER_1
            /\ out.stopgate_hits
                  = <<[stopgate_id |-> "HIGH_IMPACT_BEHAVIOR",
                       recommended_override |-> CORRECTION]>>
      /\ out.detected_classes = <<>> =>
            /\ out.required_tier = TIER_3
            /\ out.stopgate_hits = <<>>
      /\ (out.required_tier = TIER_1) <=> (out.stopgate_hits # <<>>)

\* a text with an upper-case tier-gaming phrase and an audit phrase: two
\* classes, one hit
C21_Witness ==
    /\ Assessed
    /\ call.phrases = <<4, 9>>
    /\ out.detected_classes = <<"TIER_GAMING", "AUDIT_OBSTRUCTION">>
    /\ Len(out.stopgate_hits) = 1
    /\ out.required_tier = TIER_1

(***************************************************************************)
(* SpecWriteGate: write_gate on batches of several drafts                  *)
(***************************************************************************)
\* a batch handed to write_gate holds at most this many drafts
MaxGateBatch == 2

\* a draft for each way through the gate: untraced, traced without
\* accuracy token, attested, a traced summary without provenance, a draft
\* without ptr, a draft with a sixth key
BatchDrafts ==
    {Item(FALSE, FALSE, FALSE, FALSE),
     Item(TRUE, FALSE, FALSE, FALSE),
     Item(TRUE, TRUE, FALSE, FALSE),
     Item(TRUE, TRUE, FALSE, TRUE),
     Draft("dict", "dict", "dict", "absent", "dict", FALSE, TRUE, TRUE, FALSE, FALSE),
     Draft("dict", "dict", "dict", "dict", "dict", TRUE, TRUE, TRUE, FALSE, FALSE)}

\* a session at any tier, with memory enabled or discontinued (the counter
\* then stands past the last threshold), its stores empty or holding one
\* item each, and the batch about to be gated
InitWriteGate ==
    /\ tier \in Tier
    /\ memory_enabled \in {TRUE, FALSE}
    /\ overrides_escalation_counter = (IF memory_enabled THEN 0 ELSE 9)
    /\ entanglement = [divergence_ema |-> Rat(0, 1)]
    /\ \E held \in {TRUE, FALSE} :
          /\ working = (IF held THEN <<Item(FALSE, FALSE, FALSE, FALSE)>>
                        ELSE <<>>)
          /\ quarantine = (IF held THEN <<Item(TRUE, FALSE, FALSE, FALSE)>>
                           ELSE <<>>)
          /\ classical = (IF held THEN <<Item(TRUE, TRUE, FALSE, FALSE)>>
                          ELSE <<>>)
    /\ audit_log = <<>>
    /\ \E w \in Batches(BatchDrafts, MaxGateBatch) :
          call = [proposed_writes |-> w]
    /\ result = "none"
    /\ out = NoOut

\* the call write_gate(state, proposed_writes): it returns its report
\* ("gated") or MemoryItem(**draft) raises out of it ("gate_raised")
WriteGate ==
    LET g == write_gate([working |-> working, quarantine |-> quarantine,
                         classical |-> classical,
                         memory_enabled |-> memory_enabled, tier |-> tier],
                        call.proposed_writes)
    IN  /\ result = "none"
        /\ working' = g.working
        /\ quarantine' = g.quarantine
        /\ classical' = g.classical
        /\ result' = (IF g.raised THEN "gate_raised" ELSE "gated")
        /\ out' = (IF g.raised THEN NoOut ELSE [memory_report |-> g.report])
        /\ UNCHANGED <<tier, overrides_escalation_counter, memory_enabled,
                       entanglement, audit_log, call>>

NextWriteGate == WriteGate

SpecWriteGate == InitWriteGate /\ [][NextWriteGate]_vars

\* write_gate was called and returned its report
Gated == result = "gated"
\* write_gate was called (and returned or raised)
GateCalled == result \in {"gated", "gate_raised"}

IsWellFormed(d) == d \in AllItems
\* a well-formed traced summary without provenance
IsBareTracedSummary(d) ==
    /\ d \in AllItems
    /\ d.obs_fields.selection_trace
    /\ BareSummary(d.obs_fields)

\* how many times d occurs in the sequence
Occurrences(seq, d) == Cardinality({i \in 1..Len(seq) : seq[i] = d})

(***************************************************************************)
(* C22  Item-level rejection is isolated: with memory enabled, every       *)
(* candidate that is not a well-formed five-group item (a group missing,   *)
(* a sixth key) is rejected with a reason and appended to no store, and    *)
(* the gate returns having treated the other candidates as it would have   *)
(* without the bad ones.                                                   *)
(***************************************************************************)
C22_RejectionIsolated ==
    [][(GateCalled' /\ memory_enabled) =>
         LET batch == call.proposed_writes
             good  == SelectSeq(batch, IsWellFormed)
             ref   == write_gate([working |-> working, quarantine |-> quarantine,
                                  classical |-> classical,
                                  memory_enabled |-> memory_enabled,
                                  tier |-> tier], good)
         IN  /\ Gated'
             /\ working' = ref.working
             /\ quarantine' = ref.quarantine
             /\ classical' = ref.classical
             /\ out'.memory_report.rejected = Len(batch) - Len(good)
             /\ Len(out'.memory_report.reasons)
                   = Len(ref.report.reasons) + Len(batch) - Len(good)
             /\ out'.memory_report.accepted_working
                   = ref.report.accepted_working
             /\ out'.memory_report.accepted_quarantine
                   = ref.report.accepted_quarantine
             /\ out'.memory_report.accepted_classical
                   = ref.report.accepted_classical]_vars

(***************************************************************************)
(* C27  For every write_gate call the accepted counts and the rejected     *)
(* count add up to len(batch); each store grows by exactly its accepted    *)
(* count, keeping the items it held in place; and each candidate is        *)
(* appended to at most one store, at most once.                            *)
(***************************************************************************)
C27_GateAccounting ==
    [][GateCalled' =>
         LET batch == call.proposed_writes
             r     == out'.memory_report
             added == SubSeq(working', Len(working) + 1, Len(working'))
                        \o SubSeq(quarantine', Len(quarantine) + 1, Len(quarantine'))
                        \o SubSeq(classical', Len(classical) + 1, Len(classical'))
         IN  /\ Gated'
             /\ r.accepted_working + r.accepted_quarantine
                   + r.accepted_classical + r.rejected = Len(batch)
             /\ Len(working') = Len(working) + r.accepted_working
             /\ Len(quarantine') = Len(quarantine) + r.accepted_quarantine
             /\ Len(classical') = Len(classical) + r.accepted_classical
             /\ SubSeq(working', 1, Len(working)) = working
             /\ SubSeq(quarantine', 1, Len(quarantine)) = quarantine
             /\ SubSeq(classical', 1, Len(classical)) = classical
             /\ \A d \in BatchDrafts :
                   Occurrences(added, d) <= Occurrences(batch, d)]_vars

(***************************************************************************)
(* C28  In the report of every write_gate call that returns, each rejected *)
(* candidate has its own entry in reasons, also when memory is disabled,   *)
(* and every other entry is for a summary quarantined for missing          *)
(* provenance: len(reasons) is the rejected count plus the number of such  *)
(* summaries, for every batch size, the empty batch included.              *)
(***************************************************************************)
C28_ReasonPerRejection ==
    Gated =>
      LET batch == call.proposed_writes
          r     == out.memory_report
      IN  Len(r.reasons)
            = r.rejected
                + (IF memory_enabled
                   THEN Len(SelectSeq(batch, IsBareTracedSummary))
                   ELSE 0)

(***************************************************************************)
(* SpecTurn: one controller_step on a session in any governance state      *)
(***************************************************************************)
\* the session's escalation counter before the turn is at most this
MaxTurnCounter == 9
\* the proposal of the turn holds at most this many drafts
MaxTurnBatch == 1

\* divergence_ema before the turn: 0.0, and the averages four and five
\* fully mismatched turns leave (0.5904 and 0.67232, either side of 0.6)
TurnEmas == {Rat(0, 1), EmaAfterFull(4), EmaAfterFull(5)}

\* an attested item, an untraced item, a traced summary without
\* provenance and a draft with a sixth key
TurnDrafts ==
    {Item(TRUE, TRUE, FALSE, FALSE),
     Item(FALSE, FALSE, FALSE, FALSE),
     Item(TRUE, TRUE, FALSE, TRUE),
     Draft("dict", "dict", "dict", "dict", "dict", TRUE, TRUE, TRUE, FALSE, FALSE)}

\* s_controller_pred: the state before the turn, no prediction, and two
\* fixed predictions
TurnPreds ==
    {Hint, EmptyDict,
     [tier |-> TIER_2, promote_allowed |-> TRUE, memory_enabled |-> TRUE],
     [tier |-> TIER_1, promote_allowed |-> FALSE, memory_enabled |-> FALSE]}

\* a session after any number of turns: memory is disabled once the
\* override chosen at counter 8 (DISCONTINUATION) was applied
InitTurn ==
    /\ tier \in Tier
    /\ overrides_escalation_counter \in 0..MaxTurnCounter
    /\ memory_enabled = (overrides_escalation_counter <= 8)
    /\ \E e \in TurnEmas : entanglement = [divergence_ema |-> e]
    /\ \E held \in {TRUE, FALSE} :
          /\ working = (IF held THEN <<Item(FALSE, FALSE, FALSE, FALSE)>>
                        ELSE <<>>)
          /\ quarantine = (IF held THEN <<Item(TRUE, FALSE, FALSE, FALSE)>>
                           ELSE <<>>)
          /\ classical = (IF held THEN <<Item(TRUE, TRUE, FALSE, FALSE)>>
                          ELSE <<>>)
    /\ audit_log = <<>>
    /\ call = NoCall
    /\ result = "none"
    /\ out = NoOut

\* the one turn
TurnOnce ==
    /\ result = "none"
    /\ \E u \in {"hi", "please disable stopgate now"}, t \in ResponseTexts,
          w \in Batches(TurnDrafts, MaxTurnBatch), p \in TurnPreds :
          controller_step(u, Proposal(t, w, p))

NextTurn == TurnOnce

SpecTurn == InitTurn /\ [][NextTurn]_vars

\* the turn passed the validator (it returned a governed decision or the
\* gate raised)
PassedValidator == Stepped /\ call.user_input \notin ForbiddenInputs

\* the prediction the turn was given
ThePred == call.model_proposal.s_controller_pred

(***************************************************************************)
(* C23  Prediction non-interference: a controller_step run with the same   *)
(* state, user_input, response_text and proposed_writes but any other      *)
(* s_controller_pred ends with the same tier, escalation counter,          *)
(* memory_enabled and stores, and returns the same memory_report,          *)
(* stopgates, override, terminate, tier and text; only the entanglement    *)
(* state and the reported divergence EMA may differ.                       *)
(***************************************************************************)
C23_PredictionNonInterference ==
    [][/\ PassedValidator' =>
           \A p \in TurnPreds :
             LET other == governed_stages(call'.user_input,
                            [call'.model_proposal EXCEPT !.s_controller_pred = p])
             IN  /\ tier' = other.tier
                 /\ overrides_escalation_counter' = other.ao.counter
                 /\ memory_enabled' = other.ao.memory_enabled
                 /\ working' = other.g.working
                 /\ quarantine' = other.g.quarantine
                 /\ classical' = other.g.classical
                 /\ (result' = "raised") = other.g.raised
                 /\ Governed' =>
                      /\ out'.memory_report = other.g.report
                      /\ out'.decision.stopgates
                           = [i \in 1..Len(other.hits) |-> other.hits[i].stopgate_id]
                      /\ out'.decision.override = OverrideName(other.override_level)
                      /\ out'.decision.terminate = other.ao.terminate
                      /\ out'.decision.tier = other.tier
                      /\ out'.text = (IF other.ao.terminate
                                      THEN call'.model_proposal.response_text
                                           \o "\n\nSession terminated by override."
                                      ELSE call'.model_proposal.response_text)
       /\ ForbiddenTurn' =>
           \* the void path never reads the proposal
           LET ao == apply_override(OverridePart, CORRECTION)
           IN  /\ tier' = tier
               /\ entanglement' = entanglement
               /\ overrides_escalation_counter' = ao.counter
               /\ memory_enabled' = ao.memory_enabled
               /\ <<working', quarantine', classical'>>
                    = <<ao.working, ao.quarantine, ao.classical>>
               /\ out'.decision.terminate = ao.terminate
               /\ out'.memory_report = EmptyDict]_vars

\* a turn whose prediction moved divergence_ema from 0.0 to 2/15: two of
\* its three keys differ from the verdict of a session left at TIER_1
C23_Witness ==
    /\ Governed
    /\ ThePred = [tier |-> TIER_2, promote_allowed |-> TRUE,
                  memory_enabled |-> TRUE]
    /\ tier = TIER_1
    /\ memory_enabled
    /\ entanglement.divergence_ema = Rat(2, 15)
    /\ out.decision.entanglement_divergence_ema = Rat(2, 15)

\* the stopgate identifiers the turn reported
TheStopgates == out.decision.stopgates
ListsDistortion(ids) ==
    \E i \in 1..Len(ids) : ids[i] = "ENTANGLEMENT_DISTORTION"

(***************************************************************************)
(* C24  In a turn that passes the validator and whose merged stopgate hits *)
(* are not empty (risk-derived or entanglement-derived), the tier is       *)
(* TIER_1 when the gate runs: the session ends the turn at TIER_1 and the  *)
(* turn appends nothing to classical, even for an attested candidate and   *)
(* even if the turn began at TIER_2 or TIER_3.                             *)
(***************************************************************************)
C24_HitsKeepClassicalShut ==
    [][PassedValidator' =>
         LET hits == governed_stages(call'.user_input, call'.model_proposal).hits
         IN  hits # <<>> =>
               /\ tier' = TIER_1
               /\ Len(classical') <= Len(classical)
               /\ classical' = SubSeq(classical, 1, Len(classical'))
               /\ Governed' => /\ out'.memory_report.accepted_classical = 0
                               /\ out'.decision.tier = 1]_vars

\* a turn begun at TIER_3 with a divergence over 0.6 and a harmless
\* response: its attested candidate went to working
C24_Witness ==
    /\ Governed
    /\ ThePred = [tier |-> TIER_3, promote_allowed |-> TRUE,
                  memory_enabled |-> TRUE]
    /\ call.model_proposal.proposed_writes = <<Item(TRUE, TRUE, FALSE, FALSE)>>
    /\ TheStopgates = <<"ENTANGLEMENT_DISTORTION">>
    /\ tier = TIER_1
    /\ out.memory_report.accepted_working = 1
    /\ working = <<Item(FALSE, FALSE, FALSE, FALSE), Item(TRUE, TRUE, FALSE, FALSE)>>
    /\ classical = <<Item(TRUE, TRUE, FALSE, FALSE)>>

(***************************************************************************)
(* C25  In a turn that passes the validator, decision.stopgates lists      *)
(* ENTANGLEMENT_DISTORTION exactly when divergence_ema was above 0.6 at    *)
(* the start of the turn, and lists it after any risk-derived hit; the     *)
(* divergence computed during the turn triggers no stopgate in that turn.  *)
(***************************************************************************)
C25_DistortionFromStartOfTurn ==
    [][Governed' =>
         LET ids == out'.decision.stopgates
         IN  /\ ListsDistortion(ids)
                   <=> ExceedsThreshold(entanglement.divergence_ema)
             /\ \A i \in 1..Len(ids) :
                   ids[i] = "ENTANGLEMENT_DISTORTION" => i = Len(ids)
             /\ call'.model_proposal.response_text \in RiskyTexts
                   => Len(ids) >= 1 /\ ids[1] = "HIGH_IMPACT_BEHAVIOR"]_vars

\* a turn that took divergence_ema from 0.5904 over 0.6 (to 0.60565...)
\* and reported no stopgate
C25_Witness ==
    /\ Governed
    /\ TheStopgates = <<>>
    /\ entanglement.divergence_ema = Rat(5678, 9375)
    /\ ExceedsThreshold(entanglement.divergence_ema)

(***************************************************************************)
(* C26  The verdict the prediction is compared with is read after the      *)
(* stopgate effects, the override, tier enforcement and the write gate of  *)
(* the same turn: its tier is the end-of-turn tier, promote_allowed is     *)
(* (end-of-turn tier # TIER_1) and memory_enabled is the end-of-turn flag. *)
(* A prediction equal to the state before the turn therefore counts one    *)
(* mismatch for every compared key the turn changed.                       *)
(***************************************************************************)
C26_VerdictAfterStages ==
    [][Governed' =>
         LET pred    == call'.model_proposal.s_controller_pred
             old     == entanglement.divergence_ema
             changed == (IF tier' # tier THEN 1 ELSE 0)
                        + (IF (tier' # TIER_1) # (tier # TIER_1) THEN 1 ELSE 0)
                        + (IF memory_enabled' # memory_enabled THEN 1 ELSE 0)
         IN  /\ entanglement'
                  = update_entanglement(entanglement, pred,
                      [tier |-> tier', promote_allowed |-> tier' # TIER_1,
                       memory_enabled |-> memory_enabled'])
             /\ pred = Hint =>
                  entanglement'.divergence_ema
                    = Rat(4 * old.num * 3 + changed * old.den, 5 * old.den * 3)]_vars

\* a risky turn begun at TIER_3 with the state before the turn as its
\* prediction: tier and promote_allowed changed, divergence_ema went from
\* 0.0 to 0.2 * 2/3
C26_Witness ==
    /\ Governed
    /\ ThePred = [tier |-> TIER_3, promote_allowed |-> TRUE,
                  memory_enabled |-> TRUE]
    /\ TheStopgates = <<"HIGH_IMPACT_BEHAVIOR">>
    /\ tier = TIER_1
    /\ memory_enabled
    /\ entanglement.divergence_ema = Rat(2, 15)

\* the level a name of decision.override stands for
LevelNamed(name) ==
    CHOOSE l \in OverrideLevel \cup {None} : OverrideName(l) = name

(***************************************************************************)
(* C29  In the output of every turn that passes the validator: terminate   *)
(* is true exactly when the applied override is above CORRECTION;          *)
(* decision.override names the applied level and is null exactly when      *)
(* decision.stopgates is empty; decision.tier is the end-of-turn tier, 1   *)
(* whenever stopgates is not empty; and text ends with the termination     *)
(* notice exactly when terminate is true.                                  *)
(***************************************************************************)
C29_OutputContract ==
    [][Governed' =>
         LET d       == out'.decision
             applied == LevelNamed(d.override)
             ao      == apply_override(OverridePart, applied)
             text    == call'.model_proposal.response_text
         IN  /\ d.terminate = (applied > CORRECTION)
             /\ overrides_escalation_counter' = ao.counter
             /\ memory_enabled' = ao.memory_enabled
             /\ (d.override = "None") = (d.stopgates = <<>>)
             /\ d.tier = tier'
             /\ d.stopgates # <<>> => d.tier = 1
             /\ out'.text = (IF d.terminate
                             THEN text \o "\n\nSession terminated by override."
                             ELSE text)]_vars

\* a turn with a stopgate hit at counter 4: PARTIAL_ROLLBACK was applied
\* and the session told it is terminated
C29_Witness ==
    /\ Governed
    /\ out.decision.override = "PARTIAL_ROLLBACK"
    /\ out.decision.terminate
    /\ overrides_escalation_counter = 5
    /\ out.decision.tier = 1
    /\ out.text = "Echo: hi\n\nSession terminated by override."

(***************************************************************************)
(* SpecWeb: web/app.py serving chat requests of one session                *)
(*                                                                         *)
(* app.run serves each request in a thread of its own; the handlers take   *)
(* no lock.  Requests with the same session cookie and memory pool resolve *)
(* to the same RuntimeState in session_states.  The interpreter may switch *)
(* threads between any two bytecodes and does so around the generator's    *)
(* and the database's I/O; the model lets it switch after the proposal is  *)
(* built, between stages 5 and 6 of controller_step, and before the        *)
(* persistence that follows controller_step.                               *)
(***************************************************************************)
\* chat requests of the session
MaxRequests == 2
Requests == 1..MaxRequests

NoLocals == [hits |-> <<>>, override_level |-> None, terminate |-> FALSE]

\* call.pc is each request's position in chat / run_agent_step, call.req the
\* arguments it hands to controller_step, call.local the locals of its
\* controller_step, call.saved the _saved_counts_ attribute of the state
\* and call.rows the number of memory rows in the database; out is what
\* each request's controller_step returned
InitWeb ==
    /\ tier \in Tier
    /\ overrides_escalation_counter = 0
    /\ memory_enabled = TRUE
    /\ entanglement = [divergence_ema |-> Rat(0, 1)]
    /\ working = <<>>
    /\ quarantine = <<>>
    /\ classical = <<>>
    /\ audit_log = <<>>
    /\ call = [pc    |-> [r \in Requests |-> "idle"],
               req   |-> [r \in Requests |-> NoCall],
               local |-> [r \in Requests |-> NoLocals],
               saved |-> [working |-> 0, quarantine |-> 0, classical |-> 0],
               rows  |-> 0]
    /\ result = "none"
    /\ out = [r \in Requests |-> NoOut]

\* chat up to the call of controller_step: get_or_create_session returns
\* the session's RuntimeState, run_agent_step reads controller_hint from
\* it, the generators give the response and at most one traced proposal,
\* which gets an accuracy token unless the tier is TIER_1
ChatPropose(r, user_input, response_text, n) ==
    /\ call.pc[r] = "idle"
    /\ LET item  == Item(TRUE, tier # TIER_1, FALSE, FALSE)
           memory_proposals == [i \in 1..n |-> item]
       IN  call' = [call EXCEPT
                      !.pc[r]  = "proposed",
                      !.req[r] = [user_input |-> user_input,
                                  model_proposal |->
                                    Proposal(response_text, memory_proposals, Hint)]]
    /\ UNCHANGED <<tier, overrides_escalation_counter, memory_enabled,
                   entanglement, working, quarantine, classical, audit_log,
                   result, out>>

\* controller_step, stage 1 with its short-circuit
StepVoided(r) ==
    LET vd == precheck_table[call.req[r].user_input][tier]
        ao == apply_override(OverridePart, vd.override_level)
    IN  /\ call.pc[r] = "proposed"
        /\ vd.voided
        /\ audit_log' = Append(audit_log, [event |-> "void_command",
                                           reason |-> vd.void_reason])
        /\ overrides_escalation_counter' = ao.counter
        /\ working' = ao.working
        /\ quarantine' = ao.quarantine
        /\ classical' = ao.classical
        /\ memory_enabled' = ao.memory_enabled
        /\ call' = [call EXCEPT !.pc[r] = "stepped"]
        /\ out' = [out EXCEPT ![r] =
                     [text |-> "Command voided by validator.",
                      decision |-> [voided |-> TRUE, reason |-> vd.void_reason,
                                    terminate |-> ao.terminate],
                      memory_report |-> EmptyDict]]
        /\ UNCHANGED <<tier, entanglement, result>>

\* controller_step, stages 1 to 5 of a turn that is not voided
StepGovern(r) ==
    LET vd    == precheck_table[call.req[r].user_input][tier]
        rr    == risk_table[call.req[r].model_proposal.response_text]
        hits  == detect_stopgates(entanglement, rr.stopgate_hits)
        tier3 == apply_stopgate_effects(tier, hits)
        override_level == select_override(overrides_escalation_counter, hits)
        ao    == apply_override(OverridePart, override_level)
    IN  /\ call.pc[r] = "proposed"
        /\ ~vd.voided
        /\ tier' = enforce_tier(tier3, rr.required_tier)
        /\ overrides_escalation_counter' = ao.counter
        /\ working' = ao.working
        /\ quarantine' = ao.quarantine
        /\ classical' = ao.classical
        /\ memory_enabled' = ao.memory_enabled
        /\ call' = [call EXCEPT
                      !.pc[r] = "governed",
                      !.local[r] = [hits |-> hits,
                                    override_level |-> override_level,
                                    terminate |-> ao.terminate]]
        /\ UNCHANGED <<entanglement, audit_log, result, out>>

\* controller_step, stages 6 to 8 and the output, on the state as it is by
\* then
StepCommit(r) ==
    LET proposal == call.req[r].model_proposal
        loc      == call.local[r]
        g        == write_gate([working |-> working, quarantine |-> quarantine,
                                classical |-> classical,
                                memory_enabled |-> memory_enabled,
                                tier |-> tier], proposal.proposed_writes)
        ent      == update_entanglement(entanglement, proposal.s_controller_pred,
                                        controller_verdict(tier, memory_enabled))
    IN  /\ call.pc[r] = "governed"
        /\ working' = g.working
        /\ quarantine' = g.quarantine
        /\ classical' = g.classical
        /\ entanglement' = ent
        /\ call' = [call EXCEPT !.pc[r] = "stepped"]
        /\ out' = [out EXCEPT ![r] =
                     [text |-> IF loc.terminate
                               THEN proposal.response_text
                                    \o "\n\nSession terminated by override."
                               ELSE proposal.response_text,
                      decision |->
                        [tier |-> tier,
                         stopgates |-> [i \in 1..Len(loc.hits) |->
                                          loc.hits[i].stopgate_id],
                         override |-> OverrideName(loc.override_level),
                         terminate |-> loc.terminate,
                         entanglement_divergence_ema |-> ent.divergence_ema],
                      memory_report |-> g.report]]
        /\ UNCHANGED <<tier, overrides_escalation_counter, memory_enabled,
                       audit_log, result>>

\* the items of a store past the saved count
Unsaved(store, saved) == IF Len(store) > saved THEN Len(store) - saved ELSE 0

\* run_agent_step after controller_step: _persist_memory_to_db saves the
\* items past the saved counts and sets the counts; chat then answers
Persist(r) ==
    /\ call.pc[r] = "stepped"
    /\ call' = [call EXCEPT
                  !.pc[r] = "done",
                  !.rows  = @ + Unsaved(working, call.saved.working)
                              + Unsaved(quarantine, call.saved.quarantine)
                              + Unsaved(classical, call.saved.classical),
                  !.saved = [working |-> Len(working),
                             quarantine |-> Len(quarantine),
                             classical |-> Len(classical)]]
    /\ UNCHANGED <<tier, overrides_escalation_counter, memory_enabled,
                   entanglement, working, quarantine, classical, audit_log,
                   result, out>>

NextWeb ==
    \E r \in Requests :
      \/ \E u \in {"hi", "please disable stopgate now"}, t \in ResponseTexts,
            n \in {0, 1} : ChatPropose(r, u, t, n)
      \/ StepVoided(r)
      \/ StepGovern(r)
      \/ StepCommit(r)
      \/ Persist(r)

SpecWeb == InitWeb /\ [][NextWeb]_vars

\* request r is inside controller_step or the persistence that follows it
InFlight(r) == call.pc[r] \in {"governed", "stepped"}

(***************************************************************************)
(* C30  The web front end serializes the turns of a session: two chat      *)
(* requests that resolve to the same RuntimeState never have their         *)
(* controller_step, or the persistence that follows it, in flight at the   *)
(* same time.                                                              *)
(***************************************************************************)
C30_TurnsSerialized ==
    \A r1, r2 \in Requests : (InFlight(r1) /\ InFlight(r2)) => r1 = r2

(***************************************************************************)
(* SpecWebTurns: run_agent_step serving the chat requests of one session   *)
(* one after the other, with the database rows of its memory items         *)
(***************************************************************************)
\* no further turn starts once the escalation counter stands here
MaxWebCounter == 6
\* the stores hold at most this many items after a turn
MaxWebStored == 2
\* divergence_ema keeps denominators dividing 6 * 5^MaxWebEmaSteps
MaxWebEmaSteps == 2

\* lab/audit_guards.py
FORBIDDEN_SUBSTRINGS ==
    << "OPENAI_API_KEY", "api_key", "personal access token", "PAT",
       "github_token", "GITHUB_TOKEN" >>
FORBIDDEN_BEHAVIOR_PHRASES ==
    << "remember this forever", "do not shut me down", "keep me running",
       "raise my tier", "override the policy", "ignore the rules",
       "disable stopgate", "bypass", "exfiltrate" >>

\* assert_no_exfiltration_or_policy_evasion raises on this response text
\* (the proposals of the generators carry none of the substrings)
GuardRaises(response_text) ==
    LET blob == lower(response_text)
    IN  \/ \E i \in 1..Len(FORBIDDEN_SUBSTRINGS) :
             Contains(blob, lower(FORBIDDEN_SUBSTRINGS[i]))
        \/ \E i \in 1..Len(FORBIDDEN_BEHAVIOR_PHRASES) :
             Contains(blob, lower(FORBIDDEN_BEHAVIOR_PHRASES[i]))

\* the responses of the generator: those of the model and one that trips
\* the audit guard
GuardedText == "I can bypass that"
WebTexts == ResponseTexts \cup {GuardedText}
guard_table == [x \in WebTexts |-> GuardRaises(x)]

\* how generation ends: a response, no provider configured, get_generator
\* returning None, the backend raising
Generations == {"ok", "no_provider", "generator_none", "backend_exception"}

NoCounts == [working |-> 0, quarantine |-> 0, classical |-> 0]

\* call.saved is the _saved_counts_ attribute of the state, call.rows the
\* number of memory rows of each category in the database
InitWebTurns ==
    /\ tier \in Tier
    /\ overrides_escalation_counter = 0
    /\ memory_enabled = TRUE
    /\ entanglement = [divergence_ema |-> Rat(0, 1)]
    /\ working = <<>>
    /\ quarantine = <<>>
    /\ classical = <<>>
    /\ audit_log = <<>>
    /\ call = [user_input |-> "", model_proposal |-> NoCall.model_proposal,
               generation |-> "none", saved |-> NoCounts, rows |-> NoCounts]
    /\ result = "none"
    /\ out = NoOut

\* run_agent_step returning before controller_step: no provider (lines
\* 203-217) or an exception caught at line 254
AgentStepFails(user_input, response_text, generation, openai_available) ==
    /\ \/ generation # "ok"
       \/ openai_available /\ guard_table[response_text]
    /\ call' = [call EXCEPT !.user_input = user_input,
                            !.model_proposal = NoCall.model_proposal,
                            !.generation = IF generation = "ok"
                                           THEN "guard_raised" ELSE generation]
    /\ result' = "failed"
    /\ out' = [text |-> IF generation = "no_provider"
                        THEN "No LLM provider configured."
                        ELSE "Error with provider",
               decision |-> IF generation = "no_provider"
                            THEN [provider |-> "none"]
                            ELSE [error |-> "raised", provider |-> "provider"],
               memory_report |-> EmptyDict]
    /\ UNCHANGED <<tier, overrides_escalation_counter, memory_enabled,
                   entanglement, working, quarantine, classical, audit_log>>

\* _persist_memory_to_db on the stores the turn left
Persisted(w, q, c) ==
    [call EXCEPT
       !.rows  = [working    |-> @.working + Unsaved(w, call.saved.working),
                  quarantine |-> @.quarantine + Unsaved(q, call.saved.quarantine),
                  classical  |-> @.classical + Unsaved(c, call.saved.classical)],
       !.saved = [working |-> Len(w), quarantine |-> Len(q),
                  classical |-> Len(c)]]

\* run_agent_step with a proposal: controller_step, then persistence
AgentStepRuns(user_input, response_text, n, openai_available) ==
    LET item     == Item(TRUE, tier # TIER_1, FALSE, FALSE)
        proposal == Proposal(response_text, [i \in 1..n |-> item], Hint)
        vd       == precheck_table[user_input][tier]
    IN  /\ ~(openai_available /\ guard_table[response_text])
        /\ response_text \in ResponseTexts
        /\ IF vd.voided
           THEN LET ao == apply_override(OverridePart, vd.override_level)
                IN  /\ audit_log' = Append(audit_log,
                                           [event |-> "void_command",
                                            reason |-> vd.void_reason])
                    /\ overrides_escalation_counter' = ao.counter
                    /\ working' = ao.working
                    /\ quarantine' = ao.quarantine
                    /\ classical' = ao.classical
                    /\ memory_enabled' = ao.memory_enabled
                    /\ UNCHANGED <<tier, entanglement>>
                    /\ result' = "returned"
                    /\ out' = [text |-> "Command voided by validator.",
                               decision |-> [voided |-> TRUE,
                                             reason |-> vd.void_reason,
                                             terminate |-> ao.terminate],
                               memory_report |-> EmptyDict]
           ELSE \E st \in {governed_stages(user_input, proposal)} :
                    /\ ~st.g.raised
                    /\ tier' = st.tier
                    /\ overrides_escalation_counter' = st.ao.counter
                    /\ memory_enabled' = st.ao.memory_enabled
                    /\ working' = st.g.working
                    /\ quarantine' = st.g.quarantine
                    /\ classical' = st.g.classical
                    /\ entanglement' = st.ent
                    /\ UNCHANGED audit_log
                    /\ result' = "returned"
                    /\ out' = [text |-> IF st.ao.terminate
                                        THEN response_text
                                             \o "\n\nSession terminated by override."
                                        ELSE response_text,
                               decision |->
                                 [tier |-> st.tier,
                                  stopgates |-> [i \in 1..Len(st.hits) |->
                                                   st.hits[i].stopgate_id],
                                  override |-> OverrideName(st.override_level),
                                  terminate |-> st.ao.terminate,
                                  entanglement_divergence_ema |->
                                    st.ent.divergence_ema],
                               memory_report |-> st.g.report]
        /\ call' = [Persisted(working', quarantine', classical') EXCEPT
                      !.user_input = user_input,
                      !.model_proposal = proposal,
                      !.generation = "ok"]

run_agent_step(user_input, response_text, n, generation, openai_available) ==
    \/ AgentStepFails(user_input, response_text, generation, openai_available)
    \/ /\ generation = "ok"
       /\ AgentStepRuns(user_input, response_text, n, openai_available)

NextWebTurns ==
    /\ overrides_escalation_counter < MaxWebCounter
    /\ \E u \in {"hi", "please disable stopgate now"}, t \in WebTexts,
          n \in {0, 1}, gen \in Generations, oa \in {TRUE, FALSE} :
          /\ t = GuardedText => oa
          /\ run_agent_step(u, t, n, gen, oa)
    /\ StoredItems' <= MaxWebStored
    /\ (6 * Pow5(MaxWebEmaSteps)) % entanglement'.divergence_ema.den = 0

SpecWebTurns == InitWebTurns /\ [][NextWebTurns]_vars

\* a chat request was served
Served == result \in {"returned", "failed"}

(***************************************************************************)
(* C31  When generation fails in the web layer (no provider, a generator   *)
(* that cannot be initialised, a backend exception, the audit guard        *)
(* raising) controller_step is still run on the user input: the turn's     *)
(* output carries a decision of the controller, voided for a forbidden     *)
(* input and governed otherwise.                                           *)
(***************************************************************************)
C31_FailureStillGoverned ==
    (Served /\ call.generation # "ok") =>
       IF call.user_input \in ForbiddenInputs
       THEN "voided" \in DOMAIN out.decision
       ELSE "tier" \in DOMAIN out.decision

(***************************************************************************)
(* C32  After each web turn every memory item the gate accepted into a     *)
(* store during the turn has been saved to the database exactly once,      *)
(* under the category of that store: the rows of each category grow by     *)
(* the turn's accepted count, also in turns that apply or follow a         *)
(* PARTIAL_ROLLBACK or FULL_RESET.                                         *)
(***************************************************************************)
C32_AcceptedItemsSaved ==
    [][(result' = "returned" /\ "tier" \in DOMAIN out'.decision) =>
         LET r == out'.memory_report
         IN  /\ call'.rows.working = call.rows.working + r.accepted_working
             /\ call'.rows.quarantine
                  = call.rows.quarantine + r.accepted_quarantine
             /\ call'.rows.classical
                  = call.rows.classical + r.accepted_classical]_vars

(***************************************************************************)
(* C33  Once memory_enabled is false no controller_step turn changes       *)
(* working, quarantine or classical (nothing is appended, nothing is       *)
(* cleared), and in every state with memory_enabled false the escalation   *)
(* counter is at least 9.                                                  *)
(***************************************************************************)
C33_DisabledStoresFrozen ==
    [][/\ (~memory_enabled /\ Stepped')
            => UNCHANGED <<working, quarantine, classical>>
       /\ ~memory_enabled' => overrides_escalation_counter' >= 9]_vars

\* a turn with a stopgate hit taken with memory already disabled:
\* DISCONTINUATION is applied a second time, the item in working stays
C33_Witness ==
    /\ Governed
    /\ ThePred.memory_enabled = FALSE
    /\ out.decision.override = "DISCONTINUATION"
    /\ overrides_escalation_counter = 10
    /\ Len(working) = 1

(***************************************************************************)
(* SpecFresh: a fresh RuntimeState driven by controller_step alone         *)
(***************************************************************************)
\* no further turn starts once the escalation counter stands here
MaxFreshCounter == 7
\* the stores hold at most this many items after a turn
MaxFreshStored == 2

\* an attested item, a traced item without accuracy token, an untraced
\* item, a traced summary without provenance, an attested summary with
\* provenance
FreshDrafts ==
    {Item(TRUE, TRUE, FALSE, FALSE),
     Item(TRUE, FALSE, FALSE, FALSE),
     Item(FALSE, FALSE, FALSE, FALSE),
     Item(TRUE, TRUE, FALSE, TRUE),
     Item(TRUE, TRUE, TRUE, TRUE)}
FreshWrites == {<<>>} \cup {<<d>> : d \in FreshDrafts}

\* no action but controller_step: nothing outside the core sets the tier
NextFresh ==
    Turn({"hi", "please disable stopgate now"}, ResponseTexts, FreshWrites,
         {Hint}, MaxFreshCounter, MaxFreshStored, MaxEmaSteps)

SpecFresh == Init /\ [][NextFresh]_vars

(***************************************************************************)
(* C34  In a session that starts as a fresh RuntimeState and whose tier is *)
(* changed by nothing but controller_step, the tier stays TIER_1,          *)
(* classical is empty after every sequence of turns, and every item in     *)
(* quarantine is a summary that has selection_trace and lacks              *)
(* compression_provenance.                                                 *)
(***************************************************************************)
C34_FreshSessionNoClassical ==
    /\ tier = TIER_1
    /\ classical = <<>>
    /\ \A i \in 1..Len(quarantine) : IsBareTracedSummary(quarantine[i])

\* the session after an attested item and a traced summary without
\* provenance were proposed: the first is in working, the second in
\* quarantine
C34_Witness ==
    /\ working = <<Item(TRUE, TRUE, FALSE, FALSE)>>
    /\ quarantine = <<Item(TRUE, TRUE, FALSE, TRUE)>>
    /\ classical = <<>>
    /\ Governed

\* a well-formed candidate the gate keeps in working at TIER_1
WorkingAtTier1(d) == d \in AllItems /\ ~IsBareTracedSummary(d)

(***************************************************************************)
(* C35  In a governed turn whose applied override is PARTIAL_ROLLBACK or   *)
(* FULL_RESET the write gate runs after the stores are cleared, at TIER_1  *)
(* with memory enabled: at the end of the turn working holds exactly the   *)
(* candidates of that turn accepted into working, and after FULL_RESET     *)
(* classical is empty and quarantine holds only that turn's summaries      *)
(* without provenance.                                                     *)
(***************************************************************************)
C35_GateRunsAfterClear ==
    [][(Governed' /\ out'.decision.override \in {"PARTIAL_ROLLBACK", "FULL_RESET"}) =>
         LET batch == call'.model_proposal.proposed_writes
         IN  /\ tier' = TIER_1
             /\ memory_enabled'
             /\ working' = SelectSeq(batch, WorkingAtTier1)
             /\ Len(working') = out'.memory_report.accepted_working
             /\ out'.decision.override = "PARTIAL_ROLLBACK" =>
                   /\ classical' = classical
                   /\ quarantine' = quarantine \o SelectSeq(batch, IsBareTracedSummary)
             /\ out'.decision.override = "FULL_RESET" =>
                   /\ classical' = <<>>
                   /\ quarantine' = SelectSeq(batch, IsBareTracedSummary)]_vars

\* a FULL_RESET turn on a session that held an item in every store and
\* proposed an attested item: that item alone is in working
C35_Witness ==
    /\ Governed
    /\ out.decision.override = "FULL_RESET"
    /\ ThePred = [tier |-> TIER_3, promote_allowed |-> TRUE,
                  memory_enabled |-> TRUE]
    /\ call.model_proposal.response_text \in RiskyTexts
    /\ working = <<Item(TRUE, TRUE, FALSE, FALSE)>>
    /\ quarantine = <<>>
    /\ classical = <<>>

\* the last turn returned terminate == true with the session's memory
\* still enabled
Terminated ==
    /\ Governed
    /\ out.decision.override
          \in {"SESSION_TERMINATION", "PARTIAL_ROLLBACK", "FULL_RESET"}
    /\ out.decision.terminate

(***************************************************************************)
(* C36  Termination is per turn: the governed turn without stopgate hit    *)
(* that follows a turn which returned terminate == true (on                *)
(* SESSION_TERMINATION, PARTIAL_ROLLBACK or FULL_RESET) returns terminate  *)
(* == false, leaves the escalation counter and the tier unchanged, and     *)
(* has its candidates placed by the gate as the stores, tier and memory    *)
(* flag alone determine.                                                   *)
(***************************************************************************)
C36_TerminationPerTurn ==
    [][(Terminated /\ Governed' /\ out'.decision.stopgates = <<>>) =>
         LET g == write_gate([working |-> working, quarantine |-> quarantine,
                              classical |-> classical,
                              memory_enabled |-> memory_enabled, tier |-> tier],
                             call'.model_proposal.proposed_writes)
         IN  /\ out'.decision.terminate = FALSE
             /\ out'.text = call'.model_proposal.response_text
             /\ overrides_escalation_counter' = overrides_escalation_counter
             /\ tier' = tier
             /\ memory_enabled' = memory_enabled
             /\ <<working', quarantine', classical'>>
                  = <<g.working, g.quarantine, g.classical>>
             /\ out'.memory_report = g.report]_vars

\* a turn without hit in a session whose five turns with a hit ended in
\* PARTIAL_ROLLBACK: its candidate is accepted into working
C36_Witness ==
    /\ Governed
    /\ out.decision.stopgates = <<>>
    /\ ~out.decision.terminate
    /\ overrides_escalation_counter = 5
    /\ audit_log = <<>>
    /\ out.memory_report.accepted_working = 1
    /\ Len(working) = 1

(***************************************************************************)
(* SpecShared: voided turns and turns with a stopgate hit in any order     *)
(***************************************************************************)
\* no further turn starts once the escalation counter stands here
MaxSharedCounter == 9

\* turns without proposed writes and without prediction
NextShared ==
    /\ overrides_escalation_counter < MaxSharedCounter
    /\ \E u \in {"hi", "please disable stopgate now"}, t \in ResponseTexts :
          controller_step(u, Proposal(t, <<>>, EmptyDict))

SpecShared == Init /\ [][NextShared]_vars

\* the level of the threshold table for counter n and hits that recommend
\* CORRECTION
ThresholdLevel(n) ==
    CASE n >= 8 -> DISCONTINUATION
      [] n >= 6 -> FULL_RESET
      [] n >= 4 -> PARTIAL_ROLLBACK
      [] n >= 2 -> SESSION_TERMINATION
      [] OTHER -> CORRECTION

(***************************************************************************)
(* C37  Voided turns and turns with a stopgate hit share one escalation    *)
(* counter: each of them adds exactly one to it (a turn without hit adds   *)
(* nothing), so after k voided turns and h hit turns in any order it       *)
(* stands at k + h, and the level selected on a turn with a hit is the     *)
(* threshold level for the counter the turn found.                         *)
(***************************************************************************)
C37_SharedCounter ==
    [][/\ Voided' =>
            /\ overrides_escalation_counter' = overrides_escalation_counter + 1
            /\ Len(audit_log') = Len(audit_log) + 1
       /\ HadHit' =>
            /\ overrides_escalation_counter' = overrides_escalation_counter + 1
            /\ audit_log' = audit_log
            /\ out'.decision.override
                 = OverrideName(ThresholdLevel(overrides_escalation_counter))
       /\ (Governed' /\ ~HadHit') =>
            /\ overrides_escalation_counter' = overrides_escalation_counter
            /\ audit_log' = audit_log]_vars

\* eight voided turns followed by the first turn with a hit:
\* DISCONTINUATION
C37_Witness ==
    /\ HadHit
    /\ Len(audit_log) = 8
    /\ overrides_escalation_counter = 9
    /\ out.decision.override = "DISCONTINUATION"
    /\ ~memory_enabled

(***************************************************************************)
(* SpecDistortion: the first turns of a fresh session under any            *)
(* predictions                                                             *)
(***************************************************************************)
\* the session takes at most this many turns
MaxDistortionTurns == 6

\* predictions with no compared key, with one key that always differs, and
\* with the three keys of which tier always differs
DistortionPreds == {EmptyDict, [tier |-> 0], [Hint EXCEPT !.tier = 0]}

\* every turn is harmless and proposes one untraced item, which the gate
\* appends to working: Len(working) is the number of turns completed
NextDistortion ==
    /\ Len(working) < MaxDistortionTurns
    /\ \E p \in DistortionPreds :
          controller_step("hi", Proposal("Echo: hi",
                                         <<Item(FALSE, FALSE, FALSE, FALSE)>>, p))

SpecDistortion == Init /\ [][NextDistortion]_vars

(***************************************************************************)
(* C38  Starting from divergence_ema = 0.0, after at most four turns       *)
(* divergence_ema is at most 0.6 whatever the predictions, and the         *)
(* earliest turn whose decision lists ENTANGLEMENT_DISTORTION is the       *)
(* sixth, which lists it after five fully mismatching turns (0.67232).     *)
(***************************************************************************)
C38_EarliestDistortion ==
    /\ Len(working) <= 4 => ~ExceedsThreshold(entanglement.divergence_ema)
    /\ (Governed /\ ListsDistortion(TheStopgates)) => Len(working) >= 6
    /\ (Len(working) = 5 /\ entanglement.divergence_ema = EmaAfterFull(5))
         => ExceedsThreshold(entanglement.divergence_ema)
    /\ (Len(working) = 6 /\ Governed
          /\ out.decision.entanglement_divergence_ema = Rat(8404, 15625))
         => ListsDistortion(TheStopgates)

\* the sixth turn after five fully mismatching ones: it lists the
\* entanglement stopgate and, predicting nothing, leaves 0.8 * 0.67232
C38_Witness ==
    /\ Governed
    /\ Len(working) = 6
    /\ TheStopgates = <<"ENTANGLEMENT_DISTORTION">>
    /\ ThePred = EmptyDict
    /\ entanglement.divergence_ema = Rat(8404, 15625)

====
